---- MODULE Spec2Model ----
(***************************************************************************)
(* The vertex autoscaler of pkg/reconciler/vertex/scaling/scaling.go.      *)
(*                                                                         *)
(* Spec      the scheduler: the watch list and its lock, the dispatcher    *)
(*           loop of Scaler.Start, the workers of Scaler.scale, context    *)
(*           cancellation and the daemon client pool.                      *)
(* SpecEval  one call of scaleOneVertex as a function of what it reads:    *)
(*           the Vertex and Pipeline objects, the daemon's metrics and     *)
(*           buffer infos, and the vertex metrics cache; and what it does  *)
(*           to the watch set and to the daemon client pool.               *)
(* SpecLoop  one vertex over time: the clock, the evaluations of its key   *)
(*           that are under way, their patches, and the reconciler that    *)
(*           applies Spec.Replicas and stamps Status.LastScaledAt.         *)
(***************************************************************************)
EXTENDS Integers, Sequences, FiniteSets, TLC

\* ------------------------------------------------------------------ bounds
NumKeys == 3
Workers == 2
ClientsCacheSize == 1
MaxClients == 2

Keys == 1..NumKeys
WorkerIds == 1..Workers
ClientIds == 1..MaxClients
NoKey == 0
NoClient == 0

\* pl.GetDaemonServiceURL(): vertices of one pipeline share the daemon URL.
\* Keys 1 and 2 are vertices of pipeline 1, the other keys of pipeline 2.
GetDaemonServiceURL(key) == IF key <= 2 THEN 1 ELSE 2

VARIABLES
    vertexList,     \* Scaler.vertexList: the ordered keys
    vertexMap,      \* Scaler.vertexMap: the keys of the index map
    lockHeld,       \* Scaler.lock is held by the dispatcher's assign()
    pcD,            \* the dispatcher (Start's loop): [st, key]
    pcW,            \* the workers (scale): w -> [st, key, client]
    cancelled,      \* ctx.Done() is closed
    pool,           \* Scaler.daemonClientsCache: <<[url, client]>>, most recent first
    nextClient,     \* the next daemon client NewDaemonServiceClient constructs
    added,          \* the clients that were ever added to the pool
    closed,         \* client -> number of Close calls
    dispLog,        \* the keys dispatched since the watch set last changed (a window)
    ahead           \* key -> the keys that were listed when it was added and
                    \*        that have not been dispatched since

schedVars == <<vertexList, vertexMap, lockHeld, pcD, pcW, cancelled, pool,
               nextClient, added, closed, dispLog, ahead>>

VARIABLES
    evIn,           \* one evaluation: what scaleOneVertex reads (cluster, daemon, cache)
    evOut,          \* one evaluation: what scaleOneVertex did
    evPc            \* "off" | "ready" | "done"

evalVars == <<evIn, evOut, evPc>>

VARIABLES
    cluster,        \* the Vertex object in the cluster: [spec, status, lastScaledAt]
    clock,          \* the time in seconds
    cfg,            \* the vertex's Spec.Scale: [min, max, step, cooldown, zeroSleep]
    evs,            \* the evaluations of the vertex's key under way: [st, vertex, at]
    patches         \* the last patches issued: <<[at, since, peek]>>

loopVars == <<cluster, clock, cfg, evs, patches>>

VARIABLES
    wmIn,           \* edgeFetcherSet.edgeFetchers: what each edge's fetcher answers
    wmOut,          \* what GetHeadWMB returned
    wmPc            \* "off" | "ready" | "done"

wmVars == <<wmIn, wmOut, wmPc>>

VARIABLES
    ackIn,          \* jetStreamReader.Ack: what AckIt answers for each offset
    ackErrs,        \* the slice errs
    ackWg,          \* the counter of the sync.WaitGroup
    ackDone,        \* the channel done is closed
    ackPc           \* where Ack, its waiter and its goroutines are

ackVars == <<ackIn, ackErrs, ackWg, ackDone, ackPc>>
vars == <<schedVars, evalVars, loopVars, wmVars, ackVars>>

\* ----------------------------------------------------------------- helpers
SeqToSet(s) == {s[i] : i \in 1..Len(s)}

RECURSIVE RemoveKey(_, _)
RemoveKey(s, k) ==
    IF s = <<>> THEN <<>>
    ELSE IF Head(s) = k THEN RemoveKey(Tail(s), k)
    ELSE <<Head(s)>> \o RemoveKey(Tail(s), k)

MaxLog == NumKeys + 1
LogAppend(log, k) ==
    LET l == Append(log, k)
    IN  IF Len(l) > MaxLog THEN Tail(l) ELSE l

Idle == [st |-> "idle", key |-> NoKey, client |-> NoClient]
Stopped == [st |-> "stopped", key |-> NoKey, client |-> NoClient]
At(st, key, client) == [st |-> st, key |-> key, client |-> client]
DAt(st, key) == [st |-> st, key |-> key]
\* A panic that unwinds a goroutine with no deferred recover ends the process:
\* the dispatcher, the workers and the reconcilers calling the Scaler all stop.
Crashed == \E w \in WorkerIds : pcW[w].st = "panic"

\* ------------------------------------------------------ the daemon client pool
\* lru.Cache.Get: a hit moves the entry to the front.
PoolHas(p, url) == \E i \in 1..Len(p) : p[i].url = url
PoolIndex(p, url) == CHOOSE i \in 1..Len(p) : p[i].url = url
PoolClient(p, url) == IF PoolHas(p, url) THEN p[PoolIndex(p, url)].client ELSE NoClient
PoolWithout(p, url) == SelectSeq(p, LAMBDA e : e.url # url)
PoolGet(p, url) ==
    IF PoolHas(p, url) THEN <<p[PoolIndex(p, url)]>> \o PoolWithout(p, url) ELSE p

\* lru.Cache.Add: an existing key has its value replaced and moves to the front,
\* and the eviction callback is NOT called for the replaced value; a new key is
\* pushed to the front and the oldest entry is evicted when the size is exceeded.
\* (mutant) a full pool keeps its entries and drops the new client
PoolAdd_Rejecting(p, url, c) ==
    IF Len(PoolWithout(p, url)) >= ClientsCacheSize THEN p
    ELSE <<[url |-> url, client |-> c]>> \o PoolWithout(p, url)
PoolAdd(p, url, c) ==
    LET q == <<[url |-> url, client |-> c]>> \o PoolWithout(p, url)
    IN  IF Len(q) > ClientsCacheSize THEN SubSeq(q, 1, ClientsCacheSize) ELSE q
\* the clients the eviction callback closes on Add
PoolAddEvicted(p, url, c) ==
    LET q == <<[url |-> url, client |-> c]>> \o PoolWithout(p, url)
    IN  IF Len(q) > ClientsCacheSize
        THEN {q[i].client : i \in (ClientsCacheSize + 1)..Len(q)}
        ELSE {}
PoolClients(p) == {p[i].client : i \in 1..Len(p)}
CloseAll(cl, cs) == [c \in ClientIds |-> IF c \in cs THEN cl[c] + 1 ELSE cl[c]]

\* -------------------------------------------------------------------- Init
\* The Scaler after NewScaler, the StartWatching calls that listed `list` and
\* the evaluations that left the clients of p in the pool.
SchedInitPooled(list, p) ==
    /\ vertexList = list
    /\ vertexMap = SeqToSet(list)
    /\ lockHeld = FALSE
    /\ pcD = DAt("select", NoKey)
    /\ pcW = [w \in WorkerIds |-> Idle]
    /\ cancelled = FALSE
    /\ pool = p
    /\ nextClient = Len(p) + 1
    /\ added = PoolClients(p)
    /\ closed = [c \in ClientIds |-> 0]
    /\ dispLog = <<>>
    /\ ahead = [k \in Keys |-> {}]

\* The Scaler after NewScaler and the StartWatching calls that listed `list`.
SchedInitWith(list) == SchedInitPooled(list, <<>>)

SchedInit == SchedInitWith(<<>>)

EvalOff ==
    /\ evIn = <<>>
    /\ evOut = <<>>
    /\ evPc = "off"

LoopOff ==
    /\ cluster = <<>>
    /\ clock = 0
    /\ cfg = <<>>
    /\ evs = <<>>
    /\ patches = <<>>

WmOff ==
    /\ wmIn = <<>>
    /\ wmOut = <<>>
    /\ wmPc = "off"

AckOff ==
    /\ ackIn = <<>>
    /\ ackErrs = <<>>
    /\ ackWg = 0
    /\ ackDone = FALSE
    /\ ackPc = <<>>

Init == SchedInit /\ EvalOff /\ LoopOff /\ WmOff /\ AckOff

\* ------------------------------------------------------------- the watch set
\* The list and map after StartWatching / StopWatching (under the lock).
PushBack(list, key) == Append(list, key)
\* (mutant) the key is pushed without looking it up in the map
ListAfterStart_NoLookup(key) == PushBack(vertexList, key)
ListAfterStart(key) == IF key \in vertexMap THEN vertexList ELSE PushBack(vertexList, key)
\* (mutant) the front element is removed instead of the key's element
ListAfterStop_RemoveFront(key) == IF key \in vertexMap THEN Tail(vertexList) ELSE vertexList
ListAfterStop(key) == IF key \in vertexMap THEN RemoveKey(vertexList, key) ELSE vertexList

\* Scaler.Contains(key) and Scaler.Length()
Contains(key) == key \in vertexMap
Length == Len(vertexList)

DoStartWatching(key) ==
    /\ vertexList' = ListAfterStart(key)
    /\ vertexMap' = vertexMap \cup {key}
    /\ dispLog' = IF key \in vertexMap THEN dispLog ELSE <<>>
    /\ ahead' = IF key \in vertexMap THEN ahead
                ELSE [ahead EXCEPT ![key] = SeqToSet(vertexList)]

DoStopWatching(key) ==
    /\ vertexList' = ListAfterStop(key)
    /\ vertexMap' = vertexMap \ {key}
    /\ dispLog' = IF key \in vertexMap THEN <<>> ELSE dispLog
    /\ ahead' = IF key \in vertexMap
                THEN [j \in Keys |-> IF j = key THEN {} ELSE ahead[j] \ {key}]
                ELSE ahead

\* A reconciler calls Scaler.StartWatching(key).
StartWatching(key) ==
    /\ ~Crashed
    /\ ~lockHeld
    /\ DoStartWatching(key)
    /\ UNCHANGED <<evalVars, loopVars, wmVars, ackVars, lockHeld, pcD, pcW, cancelled, pool, nextClient, added, closed>>

\* A reconciler calls Scaler.StopWatching(key).
StopWatching(key) ==
    /\ ~Crashed
    /\ ~lockHeld
    /\ DoStopWatching(key)
    /\ UNCHANGED <<evalVars, loopVars, wmVars, ackVars, lockHeld, pcD, pcW, cancelled, pool, nextClient, added, closed>>

\* ------------------------------------------------------------ the dispatcher
\* The caller cancels the context passed to Start.
Cancel ==
    /\ ~Crashed
    /\ ~cancelled
    /\ cancelled' = TRUE
    /\ UNCHANGED <<evalVars, loopVars, wmVars, ackVars, vertexList, vertexMap, lockHeld, pcD, pcW, pool, nextClient,
                   added, closed, dispLog, ahead>>

\* Start's select: ctx.Done() purges the pool and returns nil, default calls assign().
StartSelect ==
    /\ ~Crashed
    /\ pcD.st = "select"
    /\ IF cancelled
       THEN /\ pcD' = DAt("returned", NoKey)
            /\ closed' = CloseAll(closed, PoolClients(pool))
            /\ pool' = <<>>
       ELSE /\ pcD' = DAt("assign", NoKey)
            /\ UNCHANGED <<pool, closed>>
    /\ UNCHANGED <<evalVars, loopVars, wmVars, ackVars, vertexList, vertexMap, lockHeld, pcW, cancelled, nextClient,
                   added, dispLog, ahead>>

\* (mutant) the front element is sent without being moved to the back
MoveFrontToBack_NoMove(list) == list
\* vertexList.MoveToBack(vertexList.Front())
MoveFrontToBack(list) == Tail(list) \o <<Head(list)>>

\* (mutant) keyCh is buffered: the send returns at once
AfterRotate_Buffered(key) == DAt("sleep", NoKey)
\* keyCh <- key on the unbuffered keyCh: assign() waits for a receiver
AfterRotate(key) == DAt("send", key)

\* (mutant) assign() unlocks before it sends
HeldAcrossSend_Released == FALSE
\* defer s.lock.Unlock(): the lock is held while keyCh <- key waits
HeldAcrossSend == TRUE

\* assign(): takes the lock; an empty list returns; otherwise the front element
\* moves to the back and assign() goes on to send its key, the lock still held.
Assign ==
    /\ ~Crashed
    /\ pcD.st = "assign"
    /\ ~lockHeld
    /\ IF vertexList = <<>>
       THEN /\ pcD' = DAt("sleep", NoKey)
            /\ UNCHANGED <<vertexList, lockHeld, dispLog, ahead>>
       ELSE /\ vertexList' = MoveFrontToBack(vertexList)
            /\ pcD' = AfterRotate(Head(vertexList))
            /\ lockHeld' = HeldAcrossSend
            /\ dispLog' = LogAppend(dispLog, Head(vertexList))
            /\ ahead' = [j \in Keys |-> IF j = Head(vertexList) THEN ahead[j]
                                        ELSE ahead[j] \ {Head(vertexList)}]
    /\ UNCHANGED <<evalVars, loopVars, wmVars, ackVars, vertexMap, pcW, cancelled, pool, nextClient, added, closed>>

\* keyCh <- key meets a worker's key := <-keyCh (the channel is unbuffered); the
\* deferred Unlock of assign() then runs.
Handoff(w) ==
    /\ ~Crashed
    /\ pcD.st = "send"
    /\ pcW[w].st = "idle"
    /\ pcW' = [pcW EXCEPT ![w] = At("eval", pcD.key, NoClient)]
    /\ pcD' = DAt("sleep", NoKey)
    /\ lockHeld' = FALSE
    /\ UNCHANGED <<evalVars, loopVars, wmVars, ackVars, vertexList, vertexMap, cancelled, pool, nextClient, added,
                   closed, dispLog, ahead>>

\* time.Sleep(...) with s.Length() under the read lock, then back to the select.
Sleep ==
    /\ ~Crashed
    /\ pcD.st = "sleep"
    /\ ~lockHeld
    /\ pcD' = DAt("select", NoKey)
    /\ UNCHANGED <<evalVars, loopVars, wmVars, ackVars, vertexList, vertexMap, lockHeld, pcW, cancelled, pool,
                   nextClient, added, closed, dispLog, ahead>>

\* --------------------------------------------------------------- the workers
\* scale(): case <-ctx.Done() returns.
WorkerExit(w) ==
    /\ ~Crashed
    /\ pcW[w].st = "idle"
    /\ cancelled
    /\ pcW' = [pcW EXCEPT ![w] = Stopped]
    /\ UNCHANGED <<evalVars, loopVars, wmVars, ackVars, vertexList, vertexMap, lockHeld, pcD, cancelled, pool,
                   nextClient, added, closed, dispLog, ahead>>

\* scaleOneVertex up to the daemon client: the cluster's answers decide whether
\* the evaluation stops watching the key, returns (nil or an error), or goes on
\* to the daemon; daemonClientsCache.Get hits, or misses and a client is built.
EvalGates(w) ==
    /\ ~Crashed
    /\ pcW[w].st = "eval"
    /\ LET key == pcW[w].key
           url == GetDaemonServiceURL(key)
       IN  \E outcome \in {"stop", "return", "error", "daemon"} :
             CASE outcome = "stop" ->
                    /\ pcW' = [pcW EXCEPT ![w] = At("stop", key, NoClient)]
                    /\ UNCHANGED <<pool, nextClient>>
               [] outcome = "return" ->
                    /\ pcW' = [pcW EXCEPT ![w] = Idle]
                    /\ UNCHANGED <<pool, nextClient>>
               [] outcome = "error" ->
                    /\ pcW' = [pcW EXCEPT ![w] = At("err", NoKey, NoClient)]
                    /\ UNCHANGED <<pool, nextClient>>
               [] outcome = "daemon" ->
                    IF PoolHas(pool, url)
                    THEN /\ pool' = PoolGet(pool, url)
                         /\ pcW' = [pcW EXCEPT ![w] = At("rpc", key, PoolClient(pool, url))]
                         /\ UNCHANGED nextClient
                    ELSE /\ nextClient <= MaxClients
                         /\ nextClient' = nextClient + 1
                         /\ pcW' = [pcW EXCEPT ![w] = At("add", key, nextClient)]
                         /\ UNCHANGED pool
    /\ UNCHANGED <<evalVars, loopVars, wmVars, ackVars, vertexList, vertexMap, lockHeld, pcD, cancelled, added, closed,
                   dispLog, ahead>>

\* s.StopWatching(key) inside scaleOneVertex, then return nil.
EvalStopWatching(w) ==
    /\ ~Crashed
    /\ pcW[w].st = "stop"
    /\ ~lockHeld
    /\ DoStopWatching(pcW[w].key)
    /\ pcW' = [pcW EXCEPT ![w] = Idle]
    /\ UNCHANGED <<evalVars, loopVars, wmVars, ackVars, lockHeld, pcD, cancelled, pool, nextClient, added, closed>>

\* s.daemonClientsCache.Add(url, dClient)
EvalAddClient(w) ==
    /\ ~Crashed
    /\ pcW[w].st = "add"
    /\ LET url == GetDaemonServiceURL(pcW[w].key)
           c == pcW[w].client
       IN  /\ pool' = PoolAdd(pool, url, c)
           /\ closed' = CloseAll(closed, PoolAddEvicted(pool, url, c))
           /\ added' = added \cup {c}
           /\ pcW' = [pcW EXCEPT ![w] = At("rpc", pcW[w].key, c)]
    /\ UNCHANGED <<evalVars, loopVars, wmVars, ackVars, vertexList, vertexMap, lockHeld, pcD, cancelled, nextClient,
                   dispLog, ahead>>

\* The daemon calls, the scaling decision and the patch: scaleOneVertex returns
\* nil or an error, or panics (a failed type assertion, an index out of range).
EvalFinish(w) ==
    /\ ~Crashed
    /\ pcW[w].st = "rpc"
    /\ \E outcome \in {"return", "error", "panic"} :
         pcW' = [pcW EXCEPT ![w] =
                    IF outcome = "return" THEN Idle
                    ELSE At(IF outcome = "error" THEN "err" ELSE "panic",
                            NoKey, NoClient)]
    /\ UNCHANGED <<evalVars, loopVars, wmVars, ackVars, vertexList, vertexMap, lockHeld, pcD, cancelled, pool,
                   nextClient, added, closed, dispLog, ahead>>

\* (mutant) the worker returns from scale() on an error
AfterError_Return == Stopped
\* where scale() goes after log.Errorw: around its for loop, to the select
AfterError == Idle

\* scale(): err != nil is logged, and the loop goes back to its select.
LogError(w) ==
    /\ ~Crashed
    /\ pcW[w].st = "err"
    /\ pcW' = [pcW EXCEPT ![w] = AfterError]
    /\ UNCHANGED <<evalVars, loopVars, wmVars, ackVars, vertexList, vertexMap, lockHeld, pcD, cancelled,
                   pool, nextClient, added, closed, dispLog, ahead>>

Dispatcher == StartSelect \/ Assign \/ Sleep
Worker(w) ==
    \/ Handoff(w)
    \/ WorkerExit(w)
    \/ EvalGates(w)
    \/ EvalStopWatching(w)
    \/ EvalAddClient(w)
    \/ EvalFinish(w)
    \/ LogError(w)

Next ==
    \/ \E key \in Keys : StartWatching(key)
    \/ \E key \in Keys : StopWatching(key)
    \/ Cancel
    \/ Dispatcher
    \/ \E w \in WorkerIds : Worker(w)

Spec == Init /\ [][Next]_vars

\* The scheduler under the Go runtime's scheduling: a goroutine that can run
\* does run, so the dispatcher and each worker take a step that stays possible.
\* (Nothing is assumed of the reconcilers or of the caller's cancel.)
SpecFair ==
    /\ Init /\ [][Next]_vars
    /\ WF_vars(Dispatcher)
    /\ \A w \in WorkerIds : WF_vars(Worker(w))

\* ================================================================ one evaluation
\* scaleOneVertex(ctx, key, worker) as a function of what it reads.  v is a record:
\*   vertexGet, plGet          "ok" | "notfound" | "error": the answers of client.Get
\*   deleting, scalable, phaseRunning, plDeleting, plRunning
\*   sinceScaled               seconds since Status.LastScaledAt at the cooldown gate
\*   delay                     seconds that pass until the zero-replica gate reads the clock
\*   cooldown, zeroSleep, min, max, step, targetSecs, targetAvail   the Scale getters
\*   specReplicas              vertex.GetReplicas();  statusReplicas  vertex.Status.Replicas
\*   isSource, self            vertex.IsASource(), vertex.Spec.Name
\*   daemon                    "ok" | "clienterr" | "metricserr": NewDaemonServiceClient
\*                             fails (after a miss of the pool), GetVertexMetrics fails
\*   metrics                   <<[hasRate, rate, hasPending, pending]>>, one per partition
\*   buffers                   <<[ok, valid, length, limitPct]>>, one per owned buffer
\*   edges                     pl.GetDownstreamEdges(self): <<[from, to]>>
\*   cache                     vertex name -> [hasPending, pending, hasLength, length]
\*   patchResult               "ok" | "notfound" | "error": the answer of client.Patch
\*   threshold                 s.options.backPressureThreshold as <<num, den>>
\*   arch                      "amd64" | "arm64": the build's float64 -> int32 conversion

\* isb.PendingNotAvailable (math.MinInt64): the most negative value the model
\* represents stands for it
PendingNotAvailable == -2147483647

\* int32 with its width scaled down to Int32Bits bits (two's complement):
\* the replicas, steps and pendings of the other inputs lie well within it.
Int32Bits == 6
Int32Max == 2 ^ (Int32Bits - 1) - 1
Int32Min == -(Int32Max + 1)
\* int32(x) of an integer x: the low bits are kept
ToInt32(x) == ((x - Int32Min) % (2 ^ Int32Bits)) + Int32Min
\* int32(f) of a float64 f with an integer value x: the value when it fits;
\* otherwise the result is implementation-dependent: amd64 yields the most
\* negative int32, arm64 saturates.
FloatToInt32(x, arch) ==
    IF Int32Min <= x /\ x <= Int32Max THEN x
    ELSE IF arch = "amd64" THEN Int32Min
    ELSE IF x > Int32Max THEN Int32Max ELSE Int32Min

\* math.Round(num / den) for num >= 0, den > 0: halves round away from zero
Round(num, den) == (2 * num + den) \div (2 * den)

\* int64(float64(length) * usageLimit), usageLimit = limitPct / 100
EffectiveLength(b) == (b.length * b.limitPct) \div 100
\* int64(float64(length) * float64(targetBufferAvailability) / 100)
TargetAvailable(b, v) == (b.length * v.targetAvail) \div 100

\* What an evaluation did.
\*   patch          the replica values patched, in order (at most one)
\*   branch         the return statement taken
\*   desired        the clamped desired replicas, when the decision was reached
\*   calledDesired  desiredReplicas was called;  raw  what it returned
\*   wrotePending / wroteLength   the values added to vertexMetricsCache
\*   pooled         daemonClientsCache.Get was called;  daemonCalled  GetVertexMetrics was
Result(branch) ==
    [branch |-> branch, stop |-> FALSE, err |-> FALSE, panic |-> FALSE,
     patch |-> <<>>, pooled |-> FALSE, daemonCalled |-> FALSE, desired |-> -1,
     calledDesired |-> FALSE, raw |-> 0,
     wrotePending |-> <<>>, wroteLength |-> <<>>, pressure |-> <<FALSE, FALSE>>]

\* (mutant) return nil without s.StopWatching(key)
StopResult_KeepWatching(branch) == Result(branch)
\* s.StopWatching(key); return nil
StopResult(branch) == [Result(branch) EXCEPT !.stop = TRUE]
\* (mutant) every error of a Get is taken for not-found
ErrResult_AsNotFound(branch) == [Result(branch) EXCEPT !.stop = TRUE]
\* return fmt.Errorf(...)
ErrResult(branch) == [Result(branch) EXCEPT !.err = TRUE]

\* (mutant) a not-found answer of Patch is returned like any other error
PatchFailed_AnyError(result) == result # "ok"
\* err != nil && !apierrors.IsNotFound(err)
PatchFailed(result) == result = "error"

\* patchVertexReplicas: client.Patch with spec.replicas = n; a not-found error
\* is swallowed, any other error is returned.
PatchVertexReplicas(r, v, n) ==
    [r EXCEPT !.patch = Append(r.patch, n), !.err = PatchFailed(v.patchResult)]

\* ---- desiredReplicas
\* The candidate of one partition before the zero and pending clamps.
PartitionCandidate(v, rate, pending, bufLen, bufAvail) ==
    IF v.isSource
    THEN FloatToInt32(Round(pending * v.statusReplicas, rate * v.targetSecs), v.arch)
    ELSE IF pending >= bufLen
         THEN ToInt32(ToInt32(v.statusReplicas) + ToInt32(v.step))
         ELSE FloatToInt32(Round(bufAvail * v.statusReplicas, bufLen - pending), v.arch)

\* (mutant) the candidate is not limited to the pending messages
ClampCandidate_Unlimited(d, pending) == IF d = 0 THEN 1 ELSE d
\* if desired == 0 { desired = 1 }; if desired > int32(pending) { desired = int32(pending) }
ClampCandidate(d, pending) ==
    LET d1 == IF d = 0 THEN 1 ELSE d
    IN  IF d1 > ToInt32(pending) THEN ToInt32(pending) ELSE d1

\* The loop over the partitions from index i on; an index beyond the buffer
\* slices of a non-source vertex panics.
RECURSIVE DesiredLoop(_, _, _, _, _, _, _)
DesiredLoop(v, rates, pendings, bufLens, bufAvails, i, maxDesired) ==
    IF i > Len(pendings) THEN [panic |-> FALSE, n |-> maxDesired]
    ELSE IF pendings[i] = 0 \/ rates[i] = 0
    THEN DesiredLoop(v, rates, pendings, bufLens, bufAvails, i + 1, maxDesired)
    ELSE IF ~v.isSource /\ i > Len(bufLens) THEN [panic |-> TRUE, n |-> 0]
    ELSE LET bl == IF v.isSource THEN 0 ELSE bufLens[i]
             ba == IF v.isSource THEN 0 ELSE bufAvails[i]
             d == ClampCandidate(PartitionCandidate(v, rates[i], pendings[i], bl, ba),
                                 pendings[i])
         IN  DesiredLoop(v, rates, pendings, bufLens, bufAvails, i + 1,
                         IF d > maxDesired THEN d ELSE maxDesired)

DesiredReplicas(v, rates, pendings, bufLens, bufAvails) ==
    DesiredLoop(v, rates, pendings, bufLens, bufAvails, 1, 1)

\* ---- hasBackPressure
\* float64(pending)/float64(length) >= threshold; a zero length divides to +Inf
\* (pending > 0) or NaN (pending = 0), and NaN compares false.
AtLeastThreshold(pending, length, threshold) ==
    IF length = 0 THEN pending > 0
    ELSE pending * threshold[2] >= threshold[1] * length

\* (mutant) an entry with a pending and no length is not skipped
EdgeCached_PendingOnly(c) == c.hasPending
\* both vertexMetricsCache.Get calls of an edge's destination answer ok
EdgeCached(c) == c.hasPending /\ c.hasLength

\* (mutant) the loop is left at the first edge under pressure
LeavesLoop_AnyEdge(e, v) == TRUE
\* if e.From == vertex.Spec.Name { directPressure = true; break loop }
LeavesLoop(e, v) == e.from = v.self

RECURSIVE PressureLoop(_, _, _)
PressureLoop(v, i, downstream) ==
    IF i > Len(v.edges) THEN <<FALSE, downstream>>
    ELSE LET e == v.edges[i]
             c == v.cache[e.to]
         IN  IF ~EdgeCached(c) THEN PressureLoop(v, i + 1, downstream)
             ELSE IF AtLeastThreshold(c.pending, c.length, v.threshold)
                  THEN IF LeavesLoop(e, v) THEN <<e.from = v.self, TRUE>>
                       ELSE PressureLoop(v, i + 1, TRUE)
                  ELSE PressureLoop(v, i + 1, downstream)

\* (mutant) only the edges leaving the vertex itself count
HasBackPressure_DirectOnly(v) ==
    <<PressureLoop(v, 1, FALSE)[1], PressureLoop(v, 1, FALSE)[1]>>
\* (directPressure, downstreamPressure)
HasBackPressure(v) == PressureLoop(v, 1, FALSE)

\* ---- the scaling decision (scaleOneVertex from `var desired int32` on)
\* (mutant) the desired replicas are not raised to min
ClampDesired_NoMin(d, min, max) == IF d > max THEN max ELSE d
\* if desired > max { desired = max }; if desired < min { desired = min }
ClampDesired(d, min, max) ==
    LET d1 == IF d > max THEN max ELSE d
    IN  IF d1 < min THEN min ELSE d1

\* (mutant) the difference is not limited to replicasPerScale
StepLimit_NoLimit(diff, maxAllowed) == diff
\* if diff > maxAllowed { diff = maxAllowed }
StepLimit(diff, maxAllowed) == IF diff > maxAllowed THEN maxAllowed ELSE diff

\* (mutant) direct back pressure is not acted on
ScaleUp_IgnoreDirect(r, v, current, desired) ==
    PatchVertexReplicas([r EXCEPT !.branch = "up"], v,
                        current + StepLimit(desired - current, ToInt32(v.step)))
\* if desired > current { ... }: the back-pressure gate, then the gradual scale-up
ScaleUp(r, v, current, desired) ==
    LET bp == HasBackPressure(v)
        rp == [r EXCEPT !.pressure = bp]
    IN  IF bp[1]
        THEN IF current > 1
             THEN PatchVertexReplicas([rp EXCEPT !.branch = "direct-decrease"], v, current - 1)
             ELSE [rp EXCEPT !.branch = "direct-skip"]
        ELSE IF bp[2]
        THEN [rp EXCEPT !.branch = "downstream-skip"]
        ELSE PatchVertexReplicas([rp EXCEPT !.branch = "up"], v,
                                 current + StepLimit(desired - current, ToInt32(v.step)))

\* (mutant) the scale-down goes to the desired replicas at once
ScaleDown_AtOnce(r, v, current, desired) ==
    PatchVertexReplicas([r EXCEPT !.branch = "down"], v, desired)
\* if desired < current { ... }: the gradual scale-down
ScaleDown(r, v, current, desired) ==
    PatchVertexReplicas([r EXCEPT !.branch = "down"], v,
                        current - StepLimit(current - desired, ToInt32(v.step)))

\* (mutant) a current outside [min, max] is treated like any other
OutsideRange_Never(current, min, max) == FALSE
\* if current > max || current < min
OutsideRange(current, min, max) == current > max \/ current < min

Decide(r, v, totalRate, totalPending, rates, pendings, bufLens, bufAvails) ==
    LET current == ToInt32(v.specReplicas)
        zero == totalPending = 0 /\ totalRate = 0
        dr == IF zero
              THEN [panic |-> FALSE, n |-> 0]
              ELSE DesiredReplicas(v, rates, pendings, bufLens, bufAvails)
        desired == ClampDesired(dr.n, v.min, v.max)
        rd == [r EXCEPT !.desired = desired, !.calledDesired = ~zero, !.raw = dr.n]
    IN  IF dr.panic THEN [r EXCEPT !.panic = TRUE, !.branch = "panic"]
        ELSE IF OutsideRange(current, v.min, v.max)
        THEN PatchVertexReplicas([rd EXCEPT !.branch = "drift"], v, desired)
        ELSE IF desired < current
        THEN ScaleDown(rd, v, current, desired)
        ELSE IF desired > current
        THEN ScaleUp(rd, v, current, desired)
        ELSE [rd EXCEPT !.branch = "same"]

\* ---- the daemon stage (from daemonClientsCache.Get to the buffer infos)
\* (mutant) only the presence of the values is looked at
MetricOk_PresentOnly(m) == m.hasRate /\ m.hasPending
MetricOk(m) ==
    /\ m.hasRate /\ m.rate >= 0
    /\ m.hasPending /\ m.pending >= 0 /\ m.pending # PendingNotAvailable

RECURSIVE SumSeq(_)
SumSeq(s) == IF s = <<>> THEN 0 ELSE Head(s) + SumSeq(Tail(s))

SeqMap(s, Op(_)) == [i \in 1..Len(s) |-> Op(s[i])]

\* (mutant) the buffer lengths are summed without the usage limit
TotalBufferLength_Raw(v) == SumSeq(SeqMap(v.buffers, LAMBDA b : b.length))
\* totalBufferLength += int64(float64(*bInfo.BufferLength) * *bInfo.BufferUsageLimit)
TotalBufferLength(v) == SumSeq(SeqMap(v.buffers, LAMBDA b : EffectiveLength(b)))

Daemon(v) ==
    LET r0 == [Result("metrics") EXCEPT !.pooled = TRUE, !.daemonCalled = TRUE]
        rates == SeqMap(v.metrics, LAMBDA m : m.rate)
        pendings == SeqMap(v.metrics, LAMBDA m : m.pending)
        totalRate == SumSeq(rates)
        totalPending == SumSeq(pendings)
        r1 == [r0 EXCEPT !.wrotePending = <<totalPending>>]
        bufLens == SeqMap(v.buffers, LAMBDA b : EffectiveLength(b))
        bufAvails == SeqMap(v.buffers, LAMBDA b : TargetAvailable(b, v))
        r2 == [r1 EXCEPT !.wroteLength = <<TotalBufferLength(v)>>]
    IN  IF v.daemon = "clienterr"
        THEN [ErrResult("client-error") EXCEPT !.pooled = TRUE]
        ELSE IF v.daemon = "metricserr"
        THEN [r0 EXCEPT !.err = TRUE, !.branch = "metrics-error"]
        ELSE IF \E i \in 1..Len(v.metrics) : ~MetricOk(v.metrics[i])
        THEN [r0 EXCEPT !.branch = "no-signal"]
        ELSE IF v.isSource
        THEN Decide(r1, v, totalRate, totalPending, rates, pendings, <<>>, <<>>)
        ELSE IF \E i \in 1..Len(v.buffers) : ~v.buffers[i].ok \/ ~v.buffers[i].valid
        THEN [r1 EXCEPT !.err = TRUE, !.branch = "buffer-error"]
        ELSE Decide(r2, v, totalRate, totalPending, rates, pendings, bufLens, bufAvails)

\* ---- the gates (scaleOneVertex up to the zero-replica peek)
\* (mutant) the cooldown gate lets every evaluation through
InCooldown_Never(v) == FALSE
\* time.Since(vertex.Status.LastScaledAt.Time).Seconds() < float64(GetCooldownSeconds())
InCooldown(v) == v.sinceScaled < v.cooldown

\* (mutant) the observed replicas are not compared with the desired ones
ReplicasMismatch_Ignored(v) == FALSE
\* int(vertex.Status.Replicas) != vertex.GetReplicas()
ReplicasMismatch(v) == v.statusReplicas # v.specReplicas

ScaleOneVertex(v) ==
    IF v.vertexGet = "notfound" THEN StopResult("vertex-notfound")
    ELSE IF v.vertexGet = "error" THEN ErrResult("vertex-error")
    ELSE IF v.deleting THEN StopResult("vertex-deleting")
    ELSE IF ~v.scalable THEN StopResult("not-scalable")
    ELSE IF InCooldown(v) THEN Result("cooldown")
    ELSE IF ~v.phaseRunning THEN Result("vertex-not-running")
    ELSE IF v.plGet = "notfound" THEN StopResult("pipeline-notfound")
    ELSE IF v.plGet = "error" THEN ErrResult("pipeline-error")
    ELSE IF v.plDeleting THEN StopResult("pipeline-deleting")
    ELSE IF ~v.plRunning THEN Result("pipeline-not-running")
    ELSE IF ReplicasMismatch(v) THEN Result("replicas-mismatch")
    ELSE IF v.statusReplicas = 0
    THEN IF v.sinceScaled + v.delay >= v.zeroSleep
         THEN PatchVertexReplicas(Result("peek"), v, 1)
         ELSE Result("zero-sleep")
    ELSE Daemon(v)

\* ---- the inputs of SpecEval
MaxReplicas == 4
MaxStep == 2
MaxSince == 3

M(rate, pending) == [hasRate |-> TRUE, rate |-> rate, hasPending |-> TRUE, pending |-> pending]
B(length, pct) == [ok |-> TRUE, valid |-> TRUE, length |-> length, limitPct |-> pct]
NotCached == [hasPending |-> FALSE, pending |-> 0, hasLength |-> FALSE, length |-> 0]
Cached(pending, length) ==
    [hasPending |-> TRUE, pending |-> pending, hasLength |-> TRUE, length |-> length]
\* a vertex whose evaluation wrote its pending and has not written a length
PendingOnly(pending) ==
    [hasPending |-> TRUE, pending |-> pending, hasLength |-> FALSE, length |-> 0]

\* The vertex evaluated is vertex 1 of the chain 1 -> 2 -> 3 (as in -> atoi ->
\* compute-sum of the even-odd pipeline); its downstream edges in both orders.
ChainEdges == {<<[from |-> 1, to |-> 2], [from |-> 2, to |-> 3]>>,
               <<[from |-> 2, to |-> 3], [from |-> 1, to |-> 2]>>}
Caches ==
    {[n \in 2..3 |-> IF n = 2 THEN c2 ELSE c3] :
        c2 \in {NotCached, PendingOnly(9), Cached(5, 10), Cached(9, 10)},
        c3 \in {NotCached, Cached(9, 10)}}

BaseInput ==
    [vertexGet |-> "ok", deleting |-> FALSE, scalable |-> TRUE,
     sinceScaled |-> MaxSince, delay |-> 0, cooldown |-> 1, zeroSleep |-> 2,
     phaseRunning |-> TRUE, plGet |-> "ok", plDeleting |-> FALSE, plRunning |-> TRUE,
     specReplicas |-> 1, statusReplicas |-> 1, min |-> 0, max |-> MaxReplicas, step |-> 1,
     isSource |-> TRUE, self |-> 1, targetSecs |-> 1, targetAvail |-> 50,
     daemon |-> "ok", metrics |-> <<M(2, 2)>>, buffers |-> <<>>,
     edges |-> <<[from |-> 1, to |-> 2], [from |-> 2, to |-> 3]>>,
     cache |-> [n \in 2..3 |-> NotCached], patchResult |-> "ok", threshold |-> <<9, 10>>,
     arch |-> "amd64"]

\* The answers that decide the gates, the rest as in BaseInput.
GateInputs(v) ==
    \E vg \in {"ok", "notfound", "error"}, del \in BOOLEAN, sc \in BOOLEAN,
       since \in {0, MaxSince}, ph \in BOOLEAN,
       pg \in {"ok", "notfound", "error"}, pdel \in BOOLEAN, pr \in BOOLEAN,
       rep \in {<<1, 1>>, <<0, 0>>, <<2, 1>>} :
        v = [BaseInput EXCEPT !.vertexGet = vg, !.deleting = del, !.scalable = sc,
                              !.sinceScaled = since, !.phaseRunning = ph, !.plGet = pg,
                              !.plDeleting = pdel, !.plRunning = pr,
                              !.specReplicas = rep[1], !.statusReplicas = rep[2]]

\* The clock and the replicas that decide the cooldown, mismatch and
\* zero-replica gates, the cluster's answers as in BaseInput.
ClockInputs(v) ==
    \E since \in 0..MaxSince, dl \in 0..1, cd \in 1..2, zs \in 2..3,
       spec \in 0..2, status \in 0..2 :
        v = [BaseInput EXCEPT !.sinceScaled = since, !.delay = dl, !.cooldown = cd,
                              !.zeroSleep = zs, !.specReplicas = spec,
                              !.statusReplicas = status]

PartitionMetrics == {M(rate, pending) : rate \in {0, 2}, pending \in {0, 2, 8}}
OwnedBuffer == {B(8, 50), B(8, 100)}
\* <<isSource, metrics, buffers>>: one or two partitions, a buffer per partition
\* of a non-source vertex
Workloads ==
    {<<TRUE, <<m>>, <<>>>> : m \in PartitionMetrics}
    \cup {<<TRUE, <<m1, m2>>, <<>>>> : m1 \in PartitionMetrics, m2 \in PartitionMetrics}
    \cup {<<FALSE, <<m>>, <<b>>>> : m \in PartitionMetrics, b \in OwnedBuffer}
    \cup {<<FALSE, <<m1, m2>>, <<b1, b2>>>> :
            m1 \in PartitionMetrics, m2 \in PartitionMetrics,
            b1 \in OwnedBuffer, b2 \in OwnedBuffer}
\* a busy source, a busy sink and an idle sink
PressureWorkloads ==
    {<<TRUE, <<M(2, 8)>>, <<>>>>, <<FALSE, <<M(2, 8), M(2, 2)>>, <<B(8, 100), B(8, 50)>>>>,
     <<FALSE, <<M(0, 0)>>, <<B(8, 100)>>>>}

\* min <= max and step >= 1
ScaleConfigs ==
    {c \in (0..MaxReplicas) \X (1..MaxReplicas) \X (1..MaxStep) : c[1] <= c[2]}

\* All gates pass: the replicas, the scale config and the workload vary; nothing
\* is cached for the downstream vertices.
ScaleInputs(v) ==
    \E cur \in 1..MaxReplicas, c \in ScaleConfigs, wl \in Workloads :
        v = [BaseInput EXCEPT !.specReplicas = cur, !.statusReplicas = cur,
                              !.min = c[1], !.max = c[2], !.step = c[3],
                              !.isSource = wl[1], !.metrics = wl[2], !.buffers = wl[3]]

\* All gates pass: the replicas, the scale config, the order of the downstream
\* edges and the cached metrics of the downstream vertices vary.
PressureInputs(v) ==
    \E cur \in 1..MaxReplicas, c \in ScaleConfigs, wl \in PressureWorkloads,
       ed \in ChainEdges, ch \in Caches :
        v = [BaseInput EXCEPT !.specReplicas = cur, !.statusReplicas = cur,
                              !.min = c[1], !.max = c[2], !.step = c[3],
                              !.isSource = wl[1], !.metrics = wl[2], !.buffers = wl[3],
                              !.edges = ed, !.cache = ch]

\* The daemon's failures: a client that cannot be built, a failed call, metrics
\* without a rate or a pending (missing, negative, PendingNotAvailable), buffer
\* infos that fail or lack a field, fewer owned buffers than partitions.
FaultyMetric ==
    {M(2, 2), M(-1, 2), M(2, -1), M(2, PendingNotAvailable),
     [M(2, 2) EXCEPT !.hasRate = FALSE], [M(2, 2) EXCEPT !.hasPending = FALSE]}
FaultyMetrics == {<<m>> : m \in FaultyMetric} \cup (FaultyMetric \X FaultyMetric)
FaultyBuffers ==
    {<<>>, <<B(8, 100)>>, <<B(8, 100), B(8, 100)>>,
     <<[B(8, 100) EXCEPT !.ok = FALSE]>>, <<[B(8, 100) EXCEPT !.valid = FALSE]>>,
     <<B(8, 100), [B(8, 100) EXCEPT !.ok = FALSE]>>}
FaultInputs(v) ==
    \E d \in {"ok", "clienterr", "metricserr"}, src \in BOOLEAN,
       ms \in FaultyMetrics, bs \in FaultyBuffers :
        v = [BaseInput EXCEPT !.daemon = d, !.isSource = src, !.metrics = ms,
                              !.buffers = bs]

\* The inputs of desiredReplicas: one or two partitions with a rate and a
\* pending that are zero, small, or (the pending) beyond int32; a buffer per
\* partition of a non-source vertex, shorter or longer than the pending.
DesiredMetric == {M(rate, pending) : rate \in {0, 1, 3}, pending \in {0, 1, 8, Int32Max + 9}}
DesiredBuffer == {B(8, 100), B(Int32Max + 19, 100)}
DesiredWorkloads ==
    {<<TRUE, <<m>>, <<>>>> : m \in DesiredMetric}
    \cup {<<TRUE, <<m1, m2>>, <<>>>> : m1 \in DesiredMetric, m2 \in DesiredMetric}
    \cup {<<FALSE, <<m>>, <<b>>>> : m \in DesiredMetric, b \in DesiredBuffer}
    \cup {<<FALSE, <<m1, m2>>, <<b1, b2>>>> :
            m1 \in DesiredMetric, m2 \in DesiredMetric,
            b1 \in DesiredBuffer, b2 \in DesiredBuffer}
DesiredInputs(v) ==
    \E cur \in {1, MaxReplicas}, st \in 1..MaxStep, ts \in 1..2,
       wl \in DesiredWorkloads, arch \in {"amd64", "arm64"} :
        v = [BaseInput EXCEPT !.specReplicas = cur, !.statusReplicas = cur,
                              !.step = st, !.targetSecs = ts,
                              !.isSource = wl[1], !.metrics = wl[2], !.buffers = wl[3],
                              !.arch = arch]

\* The answers of client.Patch: every patching branch (the peek with no
\* replicas, drift, scale-down, scale-up, direct back pressure) with a Patch
\* that fails, the vertex watched or not found any more.
PatchInputs(v) ==
    \E cur \in 0..MaxReplicas, c \in ScaleConfigs, wl \in PressureWorkloads,
       c2 \in {NotCached, Cached(9, 10)}, pr \in {"notfound", "error"} :
        v = [BaseInput EXCEPT !.specReplicas = cur, !.statusReplicas = cur,
                              !.min = c[1], !.max = c[2], !.step = c[3],
                              !.isSource = wl[1], !.metrics = wl[2], !.buffers = wl[3],
                              !.cache = [n \in 2..3 |-> IF n = 2 THEN c2 ELSE NotCached],
                              !.patchResult = pr]

\* v is one of the inputs
EvalInputs(v) ==
    \/ GateInputs(v)
    \/ PatchInputs(v)
    \/ DesiredInputs(v)
    \/ ClockInputs(v)
    \/ ScaleInputs(v)
    \/ PressureInputs(v)
    \/ FaultInputs(v)

EvalInit ==
    /\ EvalInputs(evIn)
    /\ evOut = <<>>
    /\ evPc = "ready"

\* dClient, _ := s.daemonClientsCache.Get(url); on a miss NewDaemonServiceClient
\* and, unless it fails, s.daemonClientsCache.Add(url, dClient).
DoGetClient(key, buildFails) ==
    LET url == GetDaemonServiceURL(key)
    IN  IF PoolHas(pool, url)
        THEN /\ pool' = PoolGet(pool, url)
             /\ UNCHANGED <<nextClient, added, closed>>
        ELSE IF buildFails
        THEN UNCHANGED <<pool, nextClient, added, closed>>
        ELSE /\ pool' = PoolAdd(pool, url, nextClient)
             /\ closed' = CloseAll(closed, PoolAddEvicted(pool, url, nextClient))
             /\ added' = added \cup {nextClient}
             /\ nextClient' = nextClient + 1

\* A worker runs scaleOneVertex on the key it received (the key of vertex
\* evIn.self); a return through s.StopWatching(key) takes the key off the list,
\* and an evaluation that passes the gates takes its daemon client from the pool.
Evaluate ==
    /\ evPc = "ready"
    /\ \E r \in {ScaleOneVertex(evIn)} :
         /\ evOut' = r
         /\ IF r.stop
            THEN DoStopWatching(evIn.self)
            ELSE UNCHANGED <<vertexList, vertexMap, dispLog, ahead>>
         /\ IF r.pooled
            THEN DoGetClient(evIn.self, evIn.daemon = "clienterr")
            ELSE UNCHANGED <<pool, nextClient, added, closed>>
    /\ evPc' = "done"
    /\ UNCHANGED <<evIn, loopVars, wmVars, ackVars, lockHeld, pcD, pcW, cancelled>>

\* The key evaluated is watched with another key behind it, or a reconciler has
\* stopped watching it since it was dispatched.
EvalWatchLists == {<<1, 2>>, <<NumKeys>>}
\* The pool is empty, or holds the client of the vertex's pipeline, or is full
\* of the clients of other pipelines.
EvalPools ==
    {<<>>, <<[url |-> GetDaemonServiceURL(1), client |-> 1]>>,
     <<[url |-> GetDaemonServiceURL(NumKeys), client |-> 1]>>}

\* NewDaemonServiceClient is called, and can fail, only after a miss of the pool.
InitEval ==
    /\ \E list \in EvalWatchLists, p \in EvalPools :
         /\ list = <<NumKeys>> => p = <<>>
         /\ SchedInitPooled(list, p)
    /\ EvalInit
    /\ evIn.daemon = "clienterr" => ~PoolHas(pool, GetDaemonServiceURL(evIn.self))
    /\ LoopOff /\ WmOff /\ AckOff
NextEval == Evaluate
SpecEval == InitEval /\ [][NextEval]_vars

\* ================================================================ the scaling loop
\* One vertex of the cluster over time: the clock, the workers' evaluations of
\* the vertex's key, and the reconciler that brings Status.Replicas to
\* Spec.Replicas and stamps Status.LastScaledAt.  Start's dispatcher hands a key
\* out again while a worker still evaluates it (C1_NoConcurrentEvaluation fails
\* in Spec), so up to Evaluators evaluations of the key are under way at a time.
Evaluators == 2
MaxTime == 4
MaxLogged == 2
EvaluatorIds == 1..Evaluators

LoopConfigs ==
    [min : 0..1, max : {MaxReplicas - 1}, step : {1},
     cooldown : 1..2, zeroSleep : 2..3]
\* an idle and a busy source partition
LoopMetrics == {<<M(0, 0)>>, <<M(2, 8)>>}

NoEvaluation == [st |-> "idle", vertex |-> <<>>, at |-> 0]

InitLoop ==
    /\ SchedInit /\ EvalOff /\ WmOff /\ AckOff
    /\ cluster = [spec |-> 1, status |-> 1, lastScaledAt |-> 0]
    /\ clock = 0
    /\ cfg \in LoopConfigs
    /\ evs = [e \in EvaluatorIds |-> NoEvaluation]
    /\ patches = <<>>

\* a second passes
Tick ==
    /\ clock < MaxTime
    /\ clock' = clock + 1
    /\ UNCHANGED <<cluster, cfg, evs, patches, schedVars, evalVars, wmVars, ackVars>>

\* The vertex reconciler: Status.Replicas follows Spec.Replicas and
\* Status.LastScaledAt is set to the time of the change.
Reconcile ==
    /\ cluster.status # cluster.spec
    /\ cluster' = [cluster EXCEPT !.status = cluster.spec, !.lastScaledAt = clock]
    /\ UNCHANGED <<clock, cfg, evs, patches, schedVars, evalVars, wmVars, ackVars>>

\* s.client.Get(ctx, key, vertex): the evaluation's copy of the vertex
GetVertex(e) ==
    /\ evs[e].st = "idle"
    /\ evs' = [evs EXCEPT ![e] = [st |-> "got", vertex |-> cluster, at |-> clock]]
    /\ UNCHANGED <<cluster, clock, cfg, patches, schedVars, evalVars, wmVars, ackVars>>

\* what scaleOneVertex reads, from the evaluation's copy of the vertex
LoopInput(ev, ms, dl) ==
    [BaseInput EXCEPT !.sinceScaled = ev.at - ev.vertex.lastScaledAt, !.delay = dl,
                      !.cooldown = cfg.cooldown, !.zeroSleep = cfg.zeroSleep,
                      !.specReplicas = ev.vertex.spec,
                      !.statusReplicas = ev.vertex.status,
                      !.min = cfg.min, !.max = cfg.max, !.step = cfg.step,
                      !.metrics = ms]

LogPatch(log, entry) ==
    IF Len(log) < MaxLogged THEN Append(log, entry) ELSE Append(Tail(log), entry)

\* The rest of scaleOneVertex on the copy; its patch, if it issues one, sets
\* Spec.Replicas of the vertex in the cluster.
FinishEvaluation(e) ==
    /\ evs[e].st = "got"
    /\ \E ms \in LoopMetrics, dl \in 0..(clock - evs[e].at) :
         \E r \in {ScaleOneVertex(LoopInput(evs[e], ms, dl))} :
             IF r.patch = <<>>
             THEN UNCHANGED <<cluster, patches>>
             ELSE /\ cluster' = [cluster EXCEPT !.spec = r.patch[1]]
                  /\ patches' = LogPatch(patches,
                                    [at |-> clock,
                                     since |-> clock - cluster.lastScaledAt,
                                     peek |-> r.branch = "peek",
                                     applying |-> cluster.status # cluster.spec])
    /\ evs' = [evs EXCEPT ![e] = NoEvaluation]
    /\ UNCHANGED <<clock, cfg, schedVars, evalVars, wmVars, ackVars>>

NextLoop ==
    \/ Tick
    \/ Reconcile
    \/ \E e \in EvaluatorIds : GetVertex(e)
    \/ \E e \in EvaluatorIds : FinishEvaluation(e)

SpecLoop == InitLoop /\ [][NextLoop]_vars

\* ============================================================ the edge fetcher set
\* pkg/watermark/fetch/edge_fetcher_set.go: GetHeadWMB over the fetchers of the
\* edges that come into a vertex.  wmIn is a record:
\*   heads    edge -> the WMB its fetcher.GetHeadWMB answers
\*   wms      edge -> the watermark its fetcher.GetWatermark answers (milliseconds)
\*   order    the order in which `range efs.edgeFetchers` visits the edges
MaxEdges == 2
MaxOffset == 1
MaxWatermark == 2
\* math.MaxInt64: the largest value the model represents stands for it
MaxInt64 == 2147483647

WMB(idle, offset, watermark, partition) ==
    [idle |-> idle, offset |-> offset, watermark |-> watermark, partition |-> partition]
\* var unsetWMB wmb.WMB, and wmb.WMB{}: the zero value
unsetWMB == WMB(FALSE, 0, 0, 0)
\* the WMBs an edge's fetcher answers: unset, or a head with a watermark
\* (-1 when there is none)
HeadWMBs ==
    {WMB(idle, offset, watermark, partition) :
        idle \in BOOLEAN, offset \in 0..MaxOffset,
        watermark \in -1..MaxWatermark, partition \in 0..1}

\* efs.GetWatermark(): the minimum over the edges, from
\* time.UnixMilli(math.MaxInt64) down (the minimum does not depend on the order)
RECURSIVE WatermarkLoop(_, _, _)
WatermarkLoop(in, i, overallWatermark) ==
    IF i > Len(in.order) THEN overallWatermark
    ELSE LET wm == in.wms[in.order[i]]
         IN  WatermarkLoop(in, i + 1, IF wm < overallWatermark THEN wm ELSE overallWatermark)
GetWatermark(in) == WatermarkLoop(in, 1, MaxInt64)

\* (mutant) equal watermarks are not compared by their offsets
Smaller_NoTieBreak(w, overall) == w.watermark < overall.watermark
\* watermarkBuffer replaces overallHeadWMB
Smaller(w, overall) ==
    \/ w.watermark < overall.watermark
    \/ w.watermark = overall.watermark /\ w.offset < overall.offset

\* the loop of GetHeadWMB from the i-th edge visited on
RECURSIVE HeadLoop(_, _, _)
HeadLoop(in, i, overallHeadWMB) ==
    IF i > Len(in.order) THEN [unset |-> FALSE, wmb |-> overallHeadWMB]
    ELSE LET watermarkBuffer == in.heads[in.order[i]]
         IN  IF watermarkBuffer = unsetWMB THEN [unset |-> TRUE, wmb |-> unsetWMB]
             ELSE IF watermarkBuffer.watermark # -1 /\ Smaller(watermarkBuffer, overallHeadWMB)
             THEN HeadLoop(in, i + 1, watermarkBuffer)
             ELSE HeadLoop(in, i + 1, overallHeadWMB)

GetHeadWMB(in) ==
    LET r == HeadLoop(in, 1, WMB(FALSE, MaxInt64, MaxInt64, 0))
    IN  IF r.unset THEN unsetWMB
        ELSE IF r.wmb.watermark > GetWatermark(in) THEN unsetWMB
        ELSE r.wmb

\* the orders in which a map of n edges can be visited
EdgeOrders(n) ==
    {o \in [1..n -> 1..n] : \A i \in 1..n : \E j \in 1..n : o[j] = i}

InitWM ==
    /\ SchedInit /\ EvalOff /\ LoopOff /\ AckOff
    /\ \E n \in 1..MaxEdges :
         \E hs \in [1..n -> HeadWMBs], ws \in [1..n -> -1..MaxWatermark],
            o \in EdgeOrders(n) :
             wmIn = [heads |-> hs, wms |-> ws, order |-> o]
    /\ wmOut = <<>>
    /\ wmPc = "ready"

\* a call of efs.GetHeadWMB(fromPartitionIdx)
CallGetHeadWMB ==
    /\ wmPc = "ready"
    /\ wmOut' = GetHeadWMB(wmIn)
    /\ wmPc' = "done"
    /\ UNCHANGED <<wmIn, schedVars, evalVars, loopVars, ackVars>>

NextWM == CallGetHeadWMB
SpecWM == InitWM /\ [][NextWM]_vars

\* ============================================================ jetStreamReader.Ack
\* Ack(ctx, offsets): a goroutine per offset calls AckIt; a further goroutine
\* waits for them all and closes done; Ack waits for done and returns errs.
\* ackIn is what msg.AckSync() answers for each offset.  ackPc is a record:
\*   main     "loop" | "wait" | "returned"    Ack itself
\*   idx      the index the for loop is at (from 1)
\*   g        index -> "none" | "run" | "acked" | "done"    the goroutine of an offset
\*   waiter   "none" | "waiting" | "closed"   the goroutine of wg.Wait(); close(done)
MaxOffsets == 3

\* msg.AckSync(): nil, or an error
NoError == "nil"
AckSyncAnswers ==
    {NoError,
     "nats: message was already acknowledged",   \* nats.ErrMsgAlreadyAckd
     "nats: message not found",                  \* nats.ErrMsgNotFound
     "nats: timeout",                            \* another error of the nats client
     "context deadline exceeded"}                \* an error that is not of the nats client

\* strings.HasPrefix(err.Error(), "nats:")
HasNatsPrefix(err) ==
    err \in {"nats: message was already acknowledged", "nats: message not found",
             "nats: timeout"}

\* offset.AckIt(): the error of AckSync unless it is nil, ErrMsgAlreadyAckd or
\* ErrMsgNotFound
AckIt(answer) ==
    IF answer # NoError
          /\ answer # "nats: message was already acknowledged"
          /\ answer # "nats: message not found"
    THEN answer
    ELSE NoError

\* what the goroutine of an offset leaves in errs[index]
ErrAfterAckIt(old, err) ==
    IF err # NoError /\ ~HasNatsPrefix(err) THEN err ELSE old

\* (mutant) the waiter does not wait for the goroutines
WaitReturns_AtOnce == TRUE
\* wg.Wait() returns when the counter is zero
WaitReturns == ackWg = 0

InitAck ==
    /\ SchedInit /\ EvalOff /\ LoopOff /\ WmOff
    /\ \E n \in 0..MaxOffsets :
         /\ \E answers \in [1..n -> AckSyncAnswers] : ackIn = answers
         /\ ackErrs = [i \in 1..n |-> NoError]
         /\ ackPc = [main |-> "loop", idx |-> 1, g |-> [i \in 1..n |-> "none"],
                     waiter |-> "none"]
    /\ ackWg = 0
    /\ ackDone = FALSE

\* one round of the for loop: wg.Add(1) and go func(index, o)
AckSpawn ==
    /\ ackPc.main = "loop"
    /\ ackPc.idx <= Len(ackIn)
    /\ ackWg' = ackWg + 1
    /\ ackPc' = [ackPc EXCEPT !.idx = @ + 1, !.g[ackPc.idx] = "run"]
    /\ UNCHANGED <<ackIn, ackErrs, ackDone, schedVars, evalVars, loopVars, wmVars>>

\* after the loop: go func() { wg.Wait(); close(done) }(), and Ack waits at <-done
AckStartWaiter ==
    /\ ackPc.main = "loop"
    /\ ackPc.idx > Len(ackIn)
    /\ ackPc' = [ackPc EXCEPT !.main = "wait", !.waiter = "waiting"]
    /\ UNCHANGED <<ackIn, ackErrs, ackWg, ackDone, schedVars, evalVars, loopVars, wmVars>>

\* the goroutine of offset i: o.AckIt(), and errs[index] = err for an error
\* without the prefix "nats:"
GoAckIt(i) ==
    /\ ackPc.g[i] = "run"
    /\ ackErrs' = [ackErrs EXCEPT ![i] = ErrAfterAckIt(@, AckIt(ackIn[i]))]
    /\ ackPc' = [ackPc EXCEPT !.g[i] = "acked"]
    /\ UNCHANGED <<ackIn, ackWg, ackDone, schedVars, evalVars, loopVars, wmVars>>

\* the goroutine of offset i returns: the deferred wg.Done()
GoDone(i) ==
    /\ ackPc.g[i] = "acked"
    /\ ackWg' = ackWg - 1
    /\ ackPc' = [ackPc EXCEPT !.g[i] = "done"]
    /\ UNCHANGED <<ackIn, ackErrs, ackDone, schedVars, evalVars, loopVars, wmVars>>

\* the waiter: wg.Wait() returns and close(done)
WaiterClose ==
    /\ ackPc.waiter = "waiting"
    /\ WaitReturns
    /\ ackDone' = TRUE
    /\ ackPc' = [ackPc EXCEPT !.waiter = "closed"]
    /\ UNCHANGED <<ackIn, ackErrs, ackWg, schedVars, evalVars, loopVars, wmVars>>

\* <-done; return errs
AckReturn ==
    /\ ackPc.main = "wait"
    /\ ackDone
    /\ ackPc' = [ackPc EXCEPT !.main = "returned"]
    /\ UNCHANGED <<ackIn, ackErrs, ackWg, ackDone, schedVars, evalVars, loopVars, wmVars>>

NextAck ==
    \/ AckSpawn
    \/ AckStartWaiter
    \/ \E i \in 1..MaxOffsets : i <= Len(ackIn) /\ GoAckIt(i)
    \/ \E i \in 1..MaxOffsets : i <= Len(ackIn) /\ GoDone(i)
    \/ WaiterClose
    \/ AckReturn
SpecAck == InitAck /\ [][NextAck]_vars

\* ------------------------------------------------------------------ claims
InFlight(w) == pcW[w].st \in {"eval", "stop", "add", "rpc"}

\* C1: for every key at most one scaleOneVertex evaluation is in flight at any
\* time: no two workers are evaluating the same key.
C1_NoConcurrentEvaluation ==
    \A w1, w2 \in WorkerIds :
        (w1 # w2 /\ InFlight(w1) /\ InFlight(w2)) => pcW[w1].key # pcW[w2].key

\* C8: once Start has returned, every daemon client that was ever added to the
\* pool has had Close called exactly once.
C8_ClientsClosedOnce ==
    pcD.st = "returned" => \A c \in added : closed[c] = 1

\* C9: while the watch set is unchanged the keys are dispatched in cyclic order
\* (two dispatches less than Length() apart are of different keys, two dispatches
\* Length() apart are of the same key), and a key is dispatched only after every
\* key that was listed when it was added has been dispatched.
C9_RoundRobin ==
    /\ \A i, j \in 1..Len(dispLog) :
          i < j => /\ (j - i < Len(vertexList)) => dispLog[i] # dispLog[j]
                   /\ (j - i = Len(vertexList)) => dispLog[i] = dispLog[j]
    /\ pcD.st = "send" => ahead[pcD.key] = {}

\* C9's case: three keys are watched, a full cycle and one more dispatch have
\* happened since the set last changed, and a key is being handed to a worker.
C9_Witness ==
    /\ Len(vertexList) = 3
    /\ Len(dispLog) = Len(vertexList) + 1
    /\ pcD.st = "send"

\* C10: once the context is cancelled Start returns: it has returned, or the
\* dispatcher or a worker can still take a step towards it (in a process that
\* no panic has ended).
C10_StartReturnsAfterCancel ==
    (cancelled /\ ~Crashed) =>
        (pcD.st = "returned" \/ ENABLED (Dispatcher \/ \E w \in WorkerIds : Worker(w)))

\* ---- claims about one evaluation (SpecEval)
DecisionBranches ==
    {"drift", "down", "direct-decrease", "direct-skip", "downstream-skip", "up", "same"}
\* the evaluation passed every gate, got valid metrics and reached the decision
Decided == evPc = "done" /\ evOut.branch \in DecisionBranches
CurrentInRange == evIn.min <= evIn.specReplicas /\ evIn.specReplicas <= evIn.max
Abs(x) == IF x < 0 THEN -x ELSE x
Min2(a, b) == IF a < b THEN a ELSE b
\* every partition reports rate 0 and pending 0
ZeroMetrics(v) ==
    \A i \in 1..Len(v.metrics) :
        /\ v.metrics[i].hasRate /\ v.metrics[i].rate = 0
        /\ v.metrics[i].hasPending /\ v.metrics[i].pending = 0
\* a downstream edge leaving the vertex itself whose destination is cached with
\* pending / length >= backPressureThreshold
DirectNeighbourPressure(v) ==
    \E i \in 1..Len(v.edges) :
        /\ v.edges[i].from = v.self
        /\ v.cache[v.edges[i].to].hasPending
        /\ v.cache[v.edges[i].to].hasLength
        /\ v.cache[v.edges[i].to].length > 0
        /\ v.cache[v.edges[i].to].pending * v.threshold[2]
              >= v.threshold[1] * v.cache[v.edges[i].to].length

\* C2: every patched replica value is within [min, max], in every branch that
\* patches, except the zero-replica peek, which patches exactly 1.
C2_ClampLaw ==
    evPc = "done" =>
        \A i \in 1..Len(evOut.patch) :
            IF evOut.branch = "peek" THEN evOut.patch[i] = 1
            ELSE evIn.min <= evOut.patch[i] /\ evOut.patch[i] <= evIn.max

\* C3: whenever min <= current <= max, every patched value is at most
\* replicasPerScale away from the current spec replicas.
C3_StepLaw ==
    (evPc = "done" /\ CurrentInRange) =>
        \A i \in 1..Len(evOut.patch) :
            Abs(evOut.patch[i] - evIn.specReplicas) <= evIn.step

\* C3's case: a scale-down that the step limit cuts short of the desired replicas.
C3_Witness ==
    /\ evPc = "done" /\ CurrentInRange
    /\ evOut.branch = "down"
    /\ evOut.patch = <<evIn.specReplicas - evIn.step>>
    /\ evOut.desired < evIn.specReplicas - evIn.step

\* C5 as stated: with totalPending = 0, totalRate = 0 and current > 0 the patch
\* issued sets the replicas to 0, for every min, max, step and current.
C5_ZeroScalePatchesZero ==
    (Decided /\ ZeroMetrics(evIn) /\ evIn.specReplicas > 0) =>
        \A i \in 1..Len(evOut.patch) : evOut.patch[i] = 0

\* C5 amended: with totalPending = 0, totalRate = 0 and current > 0 the desired
\* replicas are 0 clamped into [min, max], that is min; the evaluation patches
\* min when current is outside [min, max], current - min(current - min, step)
\* when min < current <= max, and nothing when current = min.
C5_ZeroScaleTowardsMin ==
    (Decided /\ ZeroMetrics(evIn) /\ evIn.specReplicas > 0) =>
        /\ evOut.desired = evIn.min
        /\ evOut.patch =
              IF ~CurrentInRange THEN <<evIn.min>>
              ELSE IF evIn.specReplicas > evIn.min
              THEN <<evIn.specReplicas
                        - Min2(evIn.specReplicas - evIn.min, evIn.step)>>
              ELSE <<>>

\* C5's case: no pending and no rate, current above a min of at least 1, and the
\* evaluation patches one step down, not to 0.
C5_Witness ==
    /\ Decided /\ ZeroMetrics(evIn)
    /\ evIn.min >= 1 /\ evIn.specReplicas > evIn.min + evIn.step
    /\ evOut.patch = <<evIn.specReplicas - evIn.step>>

C4_CooldownLaw ==
    \A i \in 1..Len(patches) : patches[i].since >= cfg.cooldown

\* C6: two peek patches (replicas 0 -> 1) of the vertex are at least
\* zeroReplicaSleepSeconds apart.
C6_PeekOncePerSleep ==
    \A i \in 1..Len(patches) : \A j \in (i + 1)..Len(patches) :
        (patches[i].peek /\ patches[j].peek) =>
            patches[j].at - patches[i].at >= cfg.zeroSleep

\* ---- claims about the scheduler (Spec), continued
\* C11: an error returned by an evaluation does not stop the scheduler: the
\* worker that got it can go round its loop (and as an idle worker can take the
\* key the dispatcher is handing off), and no worker stops and Start does not
\* return unless the context was cancelled.
C11_ErrorsNotFatal ==
    ~Crashed =>
        /\ \A w \in WorkerIds : pcW[w].st = "err" => ENABLED LogError(w)
        /\ \A w \in WorkerIds : (pcW[w] = Idle /\ pcD.st = "send") => ENABLED Handoff(w)
        /\ (pcD.st = "returned" \/ \E w \in WorkerIds : pcW[w] = Stopped) => cancelled

\* C11's case: an evaluation has returned an error, the context is not
\* cancelled, and the dispatcher has rotated again and is handing off a key.
C11_Witness ==
    /\ ~cancelled
    /\ \E w \in WorkerIds : pcW[w].st = "err"
    /\ pcD.st = "send"
    /\ Len(dispLog) >= 2

\* C12: a worker whose evaluation panicked recovers: it can take a further step
\* (back to waiting on the task channel).
C12_PanicRecovered ==
    \A w \in WorkerIds : pcW[w].st = "panic" => ENABLED Worker(w)

\* C13: the list holds no key twice, the list and the index map hold the same
\* keys, Contains(k) is true exactly for the listed keys and Length() is their
\* count.
C13_WatchSetInvariant ==
    /\ \A i, j \in 1..Len(vertexList) : i # j => vertexList[i] # vertexList[j]
    /\ SeqToSet(vertexList) = vertexMap
    /\ Len(vertexList) = Cardinality(vertexMap)
    /\ \A k \in Keys : Contains(k) <=> (\E i \in 1..Len(vertexList) : vertexList[i] = k)
    /\ Length = Cardinality(SeqToSet(vertexList))

\* C13's case: reconcilers added three keys, the dispatcher rotated and an
\* evaluation removed a key: two keys are left, out of their order of arrival,
\* while a worker is about to remove another.
C13_Witness ==
    /\ Len(vertexList) = 2
    /\ vertexList[1] > vertexList[2]
    /\ \E w \in WorkerIds : pcW[w].st = "stop" /\ pcW[w].key \in vertexMap

\* the position of a listed key
PositionOf(list, k) == CHOOSE i \in 1..Len(list) : list[i] = k

\* C14: StartWatching(k) leaves the list as it is when k is watched and appends
\* k at the back when it is not; StopWatching(k) leaves the list as it is when
\* k is not watched and otherwise removes k alone, the other keys keeping
\* their order.
C14_StartStopIdempotent ==
    \A k \in Keys :
        IF k \in SeqToSet(vertexList)
        THEN /\ ListAfterStart(k) = vertexList
             /\ Len(ListAfterStop(k)) = Len(vertexList) - 1
             /\ \A i \in 1..(Len(vertexList) - 1) :
                    ListAfterStop(k)[i] =
                        IF i < PositionOf(vertexList, k) THEN vertexList[i]
                        ELSE vertexList[i + 1]
        ELSE /\ ListAfterStop(k) = vertexList
             /\ Len(ListAfterStart(k)) = Len(vertexList) + 1
             /\ \A i \in 1..Len(vertexList) : ListAfterStart(k)[i] = vertexList[i]
             /\ ListAfterStart(k)[Len(vertexList) + 1] = k

\* C14's case: three keys are watched in an order that rotation has changed,
\* so that StopWatching of the middle one has keys on both sides to preserve.
C14_Witness ==
    /\ Len(vertexList) = 3
    /\ vertexList[2] = 1
    /\ ~lockHeld

\* ---- claims about one evaluation (SpecEval), continued
\* the evaluation gets as far as fetching the pipeline
ReachesPipeline(v) ==
    /\ v.vertexGet = "ok" /\ ~v.deleting /\ v.scalable
    /\ v.sinceScaled >= v.cooldown /\ v.phaseRunning
\* the vertex is not found, being deleted or not scalable, or its pipeline is
\* not found or being deleted
ObservesGone(v) ==
    \/ v.vertexGet = "notfound"
    \/ v.vertexGet = "ok" /\ (v.deleting \/ ~v.scalable)
    \/ ReachesPipeline(v) /\ v.plGet = "notfound"
    \/ ReachesPipeline(v) /\ v.plGet = "ok" /\ v.plDeleting
\* a Get of the vertex or of the pipeline fails with another error than not-found
ObservesGetError(v) ==
    \/ v.vertexGet = "error"
    \/ ReachesPipeline(v) /\ v.plGet = "error"
\* the evaluation gets the vertex metrics from the daemon
ReachesMetrics(v) ==
    /\ ReachesPipeline(v)
    /\ v.plGet = "ok" /\ ~v.plDeleting /\ v.plRunning
    /\ v.statusReplicas = v.specReplicas /\ v.statusReplicas # 0
    /\ v.daemon = "ok"
\* a partition without a rate or without a pending
NoSignal(v) ==
    \E i \in 1..Len(v.metrics) :
        \/ ~v.metrics[i].hasRate \/ v.metrics[i].rate < 0
        \/ ~v.metrics[i].hasPending \/ v.metrics[i].pending < 0
        \/ v.metrics[i].pending = PendingNotAvailable
WatchSetUnchanged == vertexList' = vertexList /\ vertexMap' = vertexMap

\* C15: an evaluation of key k that observes the vertex not found, being
\* deleted or not scalable, or its pipeline not found or being deleted, takes k
\* off the watch set (Length one less if k was watched, the other keys kept),
\* issues no patch and returns nil.
C15_GoneStopsWatching ==
    [][(evPc = "ready" /\ ObservesGone(evIn)) =>
          /\ evIn.self \notin vertexMap'
          /\ evIn.self \notin SeqToSet(vertexList')
          /\ Len(vertexList') = Len(vertexList) - (IF evIn.self \in vertexMap THEN 1 ELSE 0)
          /\ vertexMap' = vertexMap \ {evIn.self}
          /\ evOut'.patch = <<>>
          /\ ~evOut'.err /\ ~evOut'.panic]_vars

\* C15's case: the pipeline of a watched key was found being deleted, and the
\* key is off the list while the key behind it stays.
C15_Witness ==
    /\ evPc = "done"
    /\ ReachesPipeline(evIn) /\ evIn.plGet = "ok" /\ evIn.plDeleting
    /\ vertexList = <<2>>

\* C16: an evaluation whose Get of the vertex or of the pipeline fails with
\* another error than not-found returns the error, issues no patch and leaves
\* the watch set as it is (so the rotation reaches the key again).
C16_GetErrorKeepsWatching ==
    [][(evPc = "ready" /\ ObservesGetError(evIn)) =>
          /\ evOut'.err
          /\ evOut'.patch = <<>>
          /\ ~evOut'.stop
          /\ WatchSetUnchanged]_vars

\* C16's case: the Get of the pipeline failed, and the key is still listed.
C16_Witness ==
    /\ evPc = "done"
    /\ ReachesPipeline(evIn) /\ evIn.plGet = "error"
    /\ evOut.err
    /\ evIn.self \in vertexMap

\* C17: an evaluation that gets metrics in which some partition has no rate
\* (missing, negative) or no pending (missing, negative, PendingNotAvailable)
\* returns nil with no patch, no write to the metrics cache and the watch set
\* as it is.
C17_NoSignalSkips ==
    [][(evPc = "ready" /\ ReachesMetrics(evIn) /\ NoSignal(evIn)) =>
          /\ ~evOut'.err /\ ~evOut'.panic
          /\ evOut'.patch = <<>>
          /\ evOut'.wrotePending = <<>> /\ evOut'.wroteLength = <<>>
          /\ ~evOut'.stop
          /\ WatchSetUnchanged]_vars

\* C17's case: two partitions, the first with a rate and a pending, the second
\* with the PendingNotAvailable sentinel, and the evaluation has returned.
C17_Witness ==
    /\ evPc = "done"
    /\ ReachesMetrics(evIn)
    /\ Len(evIn.metrics) = 2
    /\ evIn.metrics[1] = M(2, 2)
    /\ evIn.metrics[2].pending = PendingNotAvailable
    /\ evIn.self \in vertexMap

\* ---- claims about the daemon client pool and the handoff (Spec)
\* the clients built by evaluations so far
Created == {c \in ClientIds : c < nextClient}
\* the clients built and not closed
Live == {c \in Created : closed[c] = 0}

\* C18: at every moment at most ClientsCacheSize clients are built and not yet
\* closed, and every client that was added to the pool and is no longer in it
\* (evicted, replaced under its URL, or purged) has been closed exactly once.
C18_PoolInvariant ==
    /\ Cardinality(Live) <= ClientsCacheSize
    /\ \A c \in added : c \notin PoolClients(pool) => closed[c] = 1

\* C19: the dispatcher hands one key at a time to the workers: a rotation is
\* followed by the send of the rotated key, while the send waits the list is
\* not rotated or changed, the send ends only with an idle worker starting the
\* evaluation of that key, and no key is pending outside a send.
C19_FlowControl ==
    [][/\ (pcD.st = "assign" /\ vertexList # <<>> /\ pcD' # pcD) =>
              (pcD' = DAt("send", Head(vertexList))
                  /\ vertexList' = Tail(vertexList) \o <<Head(vertexList)>>)
       /\ pcD.st = "send" => vertexList' = vertexList
       /\ (pcD.st = "send" /\ pcD' # pcD) =>
              \E w \in WorkerIds :
                  /\ pcW[w] = Idle
                  /\ pcW' = [pcW EXCEPT ![w] = At("eval", pcD.key, NoClient)]
       /\ pcD'.st # "send" => pcD'.key = NoKey
       /\ Cardinality({w \in WorkerIds : InFlight(w)}) <= Workers]_vars

\* C19's case: every worker is inside an evaluation and the dispatcher waits in
\* its send with the next key.
C19_Witness ==
    /\ pcD.st = "send"
    /\ \A w \in WorkerIds : InFlight(w)
    /\ ~cancelled

\* ---- claims about one evaluation (SpecEval), continued
\* C20: with the current spec replicas outside [min, max] the evaluation patches
\* the desired replicas clamped into [min, max], whatever the step, and does
\* not consult the back-pressure detector.
C20_SpecDrift ==
    (Decided /\ ~CurrentInRange) =>
        /\ evOut.branch = "drift"
        /\ evOut.patch = <<evOut.desired>>
        /\ evIn.min <= evOut.desired /\ evOut.desired <= evIn.max
        /\ evOut.pressure = <<FALSE, FALSE>>

\* C20's case: current is above max, the patch is further than the step away
\* from it, and the direct neighbour is under pressure.
C20_Witness ==
    /\ Decided
    /\ evIn.specReplicas > evIn.max
    /\ Len(evOut.patch) = 1
    /\ evIn.specReplicas - evOut.patch[1] > evIn.step
    /\ DirectNeighbourPressure(evIn)

\* C21: a not-found answer of the cluster's Patch is swallowed (the evaluation
\* returns nil and leaves the watch set as it is), any other error of Patch is
\* returned by the evaluation; either way the evaluation issued that one patch.
C21_PatchNotFoundSwallowed ==
    [][(evPc = "ready" /\ evOut'.patch # <<>>) =>
          /\ Len(evOut'.patch) = 1
          /\ evIn.patchResult = "notfound" =>
                (~evOut'.err /\ ~evOut'.panic /\ ~evOut'.stop /\ WatchSetUnchanged)
          /\ evIn.patchResult = "error" => evOut'.err
          /\ evIn.patchResult = "ok" => ~evOut'.err]_vars

\* C21's case: a scale-down whose Patch answered not-found has returned nil,
\* and the key is still watched.
C21_Witness ==
    /\ evPc = "done"
    /\ evIn.patchResult = "notfound"
    /\ evOut.branch = "down" /\ Len(evOut.patch) = 1
    /\ ~evOut.err
    /\ evIn.self \in vertexMap

\* ---- claims about the scaling loop (SpecLoop), continued
\* C22: an evaluation that finds status.replicas different from the spec
\* replicas returns without a patch, so no patch of the vertex is issued while
\* the one before it is still being applied (Status.Replicas has not yet
\* followed Spec.Replicas).
C22_NoPatchWhileApplying ==
    \A i \in 1..Len(patches) : ~patches[i].applying

\* ---- claims about one evaluation (SpecEval), continued
\* the evaluation returns at the cooldown gate, at the vertex phase gate or at
\* the pipeline phase gate
AtNonRemovingGate(v) ==
    /\ v.vertexGet = "ok" /\ ~v.deleting /\ v.scalable
    /\ \/ v.sinceScaled < v.cooldown
       \/ ~v.phaseRunning
       \/ v.plGet = "ok" /\ ~v.plDeleting /\ ~v.plRunning
PoolUnchanged ==
    pool' = pool /\ nextClient' = nextClient /\ added' = added /\ closed' = closed

\* C23: an evaluation that returns at the cooldown gate, the vertex phase gate
\* or the pipeline phase gate returns nil with no patch, keeps the key in the
\* watch set, writes nothing to the metrics cache and leaves the daemon client
\* pool as it is.
C23_NonRemovingGates ==
    [][(evPc = "ready" /\ AtNonRemovingGate(evIn)) =>
          /\ ~evOut'.err /\ ~evOut'.panic
          /\ evOut'.patch = <<>>
          /\ ~evOut'.stop /\ WatchSetUnchanged
          /\ evOut'.wrotePending = <<>> /\ evOut'.wroteLength = <<>>
          /\ ~evOut'.pooled /\ ~evOut'.daemonCalled
          /\ PoolUnchanged]_vars

\* C23's case: a watched vertex in its cooldown, which would otherwise have
\* been scaled and have had a daemon client built, was evaluated.
C23_Witness ==
    /\ evPc = "done"
    /\ AtNonRemovingGate(evIn) /\ evIn.sinceScaled < evIn.cooldown
    /\ evIn.phaseRunning /\ evIn.plGet = "ok" /\ ~evIn.plDeleting /\ evIn.plRunning
    /\ evIn.statusReplicas = evIn.specReplicas /\ evIn.statusReplicas > 0
    /\ evIn.self \in vertexMap
    /\ pool = <<>>

\* C24: with min <= current <= max, an evaluation that reaches the decision
\* patches current - min(current - desired, step) when the clamped desired is
\* below current, without consulting the back-pressure detector; patches
\* current + min(desired - current, step) when desired is above current and
\* the detector reports no pressure; and patches nothing when desired equals
\* current.  No evaluation issues more than one patch.
C24_StepwiseDecision ==
    /\ evPc = "done" => Len(evOut.patch) <= 1
    /\ (Decided /\ CurrentInRange) =>
          /\ evOut.desired < evIn.specReplicas =>
                /\ evOut.patch = <<evIn.specReplicas
                                      - Min2(evIn.specReplicas - evOut.desired, evIn.step)>>
                /\ evOut.pressure = <<FALSE, FALSE>>
                /\ evOut.branch = "down"
          /\ (evOut.desired > evIn.specReplicas /\ evOut.pressure = <<FALSE, FALSE>>) =>
                evOut.patch = <<evIn.specReplicas
                                   + Min2(evOut.desired - evIn.specReplicas, evIn.step)>>
          /\ evOut.desired = evIn.specReplicas => evOut.patch = <<>>

\* C24's case: desired is more than a step above current, nothing downstream
\* is under pressure, and the evaluation patched one step up.
C24_Witness ==
    /\ Decided /\ CurrentInRange
    /\ evOut.desired > evIn.specReplicas + evIn.step
    /\ evOut.pressure = <<FALSE, FALSE>>
    /\ evOut.patch = <<evIn.specReplicas + evIn.step>>

\* a downstream edge that does not leave the vertex itself whose destination is
\* cached with pending / length >= backPressureThreshold
FurtherDownstreamPressure(v) ==
    \E i \in 1..Len(v.edges) :
        /\ v.edges[i].from # v.self
        /\ v.cache[v.edges[i].to].hasPending
        /\ v.cache[v.edges[i].to].hasLength
        /\ v.cache[v.edges[i].to].length > 0
        /\ v.cache[v.edges[i].to].pending * v.threshold[2]
              >= v.threshold[1] * v.cache[v.edges[i].to].length

\* C25: with min <= current <= max and the clamped desired above current, when
\* no edge to a direct neighbour is under pressure but an edge further
\* downstream is, the evaluation returns nil without a patch.
C25_DownstreamPressureHolds ==
    (Decided /\ CurrentInRange /\ evOut.desired > evIn.specReplicas
        /\ ~DirectNeighbourPressure(evIn) /\ FurtherDownstreamPressure(evIn)) =>
        /\ evOut.patch = <<>>
        /\ ~evOut.err
        /\ evOut.pressure = <<FALSE, TRUE>>

\* C25's case: the direct neighbour is cached below the threshold, the vertex
\* after it at the threshold, the further edge comes first in the edge list,
\* and the evaluation wanted more replicas and patched nothing.
C25_Witness ==
    /\ Decided /\ CurrentInRange /\ evOut.desired > evIn.specReplicas
    /\ evIn.cache[2] = Cached(5, 10) /\ evIn.cache[3] = Cached(9, 10)
    /\ evIn.edges[1].from # evIn.self
    /\ evOut.patch = <<>>

\* ---- claims about desiredReplicas (SpecEval)
MaxOf(S) == CHOOSE x \in S : \A y \in S : y <= x
\* the evaluation called desiredReplicas with a buffer per partition
DesiredReturned ==
    /\ evPc = "done" /\ evOut.calledDesired
    /\ evIn.isSource \/ Len(evIn.buffers) = Len(evIn.metrics)
\* partition i has a pending and a rate that are not zero
Contributes(v, i) == v.metrics[i].pending # 0 /\ v.metrics[i].rate # 0
\* what partition i offers to maxDesired
CandidateOf(v, i) ==
    ClampCandidate(
        PartitionCandidate(v, v.metrics[i].rate, v.metrics[i].pending,
                           IF v.isSource THEN 0 ELSE EffectiveLength(v.buffers[i]),
                           IF v.isSource THEN 0 ELSE TargetAvailable(v.buffers[i], v)),
        v.metrics[i].pending)

\* C26: with a buffer length per partition, desiredReplicas returns at least 1
\* and at most max(1, the largest partition pending); it is the maximum of 1
\* and the candidates of the partitions whose pending and rate are both not
\* zero, the other partitions contributing nothing.
C26_DesiredBounds ==
    DesiredReturned =>
        /\ evOut.raw >= 1
        /\ evOut.raw <= MaxOf({1} \cup {evIn.metrics[i].pending : i \in 1..Len(evIn.metrics)})
        /\ evOut.raw = MaxOf({1} \cup {CandidateOf(evIn, i) :
                                          i \in {j \in 1..Len(evIn.metrics) :
                                                    Contributes(evIn, j)}})

\* C26's case: two partitions, the first with a pending but no rate, the second
\* with a candidate above its pending, and the result is that pending.
C26_Witness ==
    /\ DesiredReturned
    /\ Len(evIn.metrics) = 2
    /\ evIn.metrics[1].rate = 0 /\ evIn.metrics[1].pending > evIn.metrics[2].pending
    /\ Contributes(evIn, 2)
    /\ PartitionCandidate(evIn, evIn.metrics[2].rate, evIn.metrics[2].pending, 0, 0)
          > evIn.metrics[2].pending
    /\ evIn.isSource
    /\ evOut.raw = evIn.metrics[2].pending /\ evOut.raw > 1

\* the candidate of partition i as the formula gives it: the time to drain the
\* pending for a source, the buffer headroom for a UDF or sink, with the
\* observed status replicas; 0 becomes 1, and the pending is the ceiling
FormulaCandidate(v, i) ==
    LET pending == v.metrics[i].pending
        rate == v.metrics[i].rate
        length == EffectiveLength(v.buffers[i])
        d == IF v.isSource
             THEN Round(pending * v.statusReplicas, rate * v.targetSecs)
             ELSE IF pending >= length
             THEN v.statusReplicas + v.step
             ELSE Round(TargetAvailable(v.buffers[i], v) * v.statusReplicas,
                        length - pending)
        d1 == IF d = 0 THEN 1 ELSE d
    IN  IF d1 > pending THEN pending ELSE d1

\* C27: the candidate of a partition is round((pending / rate /
\* targetProcessingSeconds) * status replicas) for a source; for a UDF or sink
\* it is status replicas + step when pending >= the effective buffer length and
\* round(targetAvailable / ((effectiveLength - pending) / status replicas))
\* otherwise; a candidate of 0 becomes 1 before the clamp to pending.  So the
\* result of desiredReplicas is the maximum of 1 and these candidates.
C27_CandidateFormula ==
    DesiredReturned =>
        evOut.raw = MaxOf({1} \cup {FormulaCandidate(evIn, i) :
                                        i \in {j \in 1..Len(evIn.metrics) :
                                                  Contributes(evIn, j)}})

\* ---- claims about hasBackPressure (SpecEval)
\* the evaluation called hasBackPressure
ConsultedPressure ==
    /\ evPc = "done"
    /\ evOut.branch \in {"direct-decrease", "direct-skip", "downstream-skip", "up"}
\* edge i leads to a vertex cached with a pending and a length, pending /
\* length >= backPressureThreshold
EdgePressed(v, i) ==
    /\ v.cache[v.edges[i].to].hasPending
    /\ v.cache[v.edges[i].to].hasLength
    /\ v.cache[v.edges[i].to].length > 0
    /\ v.cache[v.edges[i].to].pending * v.threshold[2]
          >= v.threshold[1] * v.cache[v.edges[i].to].length

\* C28: downstreamPressure is true iff some downstream edge whose destination
\* has a cached pending and a cached length has pending / length >=
\* backPressureThreshold (edges without either entry are skipped);
\* directPressure is true iff such an edge leaves the vertex itself; with
\* nothing cached both are false.
C28_BackPressureFlags ==
    ConsultedPressure =>
        /\ evOut.pressure[2] = (\E i \in 1..Len(evIn.edges) : EdgePressed(evIn, i))
        /\ evOut.pressure[1] = (\E i \in 1..Len(evIn.edges) :
                                    EdgePressed(evIn, i) /\ evIn.edges[i].from = evIn.self)
        /\ (\A n \in DOMAIN evIn.cache : evIn.cache[n] = NotCached) =>
              evOut.pressure = <<FALSE, FALSE>>

\* C28's case: the direct neighbour has a cached pending and no cached length,
\* the vertex after it is at the threshold, and only downstreamPressure is set.
C28_Witness ==
    /\ ConsultedPressure
    /\ evIn.cache[2] = PendingOnly(9) /\ evIn.cache[3] = Cached(9, 10)
    /\ evOut.pressure = <<FALSE, TRUE>>

\* ---- claims about the metrics cache (SpecEval)
\* the evaluation got metrics with a rate and a pending for every partition
ValidMetrics(v) == ReachesMetrics(v) /\ ~NoSignal(v)
\* every buffer info was fetched and has a length and a usage limit
ValidBuffers(v) == \A i \in 1..Len(v.buffers) : v.buffers[i].ok /\ v.buffers[i].valid
RECURSIVE PendingFrom(_, _)
PendingFrom(v, i) ==
    IF i > Len(v.metrics) THEN 0 ELSE v.metrics[i].pending + PendingFrom(v, i + 1)
RECURSIVE UsableLengthFrom(_, _)
UsableLengthFrom(v, i) ==
    IF i > Len(v.buffers) THEN 0
    ELSE (v.buffers[i].length * v.buffers[i].limitPct) \div 100 + UsableLengthFrom(v, i + 1)

\* C29: an evaluation that gets valid metrics for every partition writes the
\* sum of the partition pendings under <key>/pending; for a non-source vertex
\* whose buffer infos are all valid it also writes the sum of floor(length *
\* usage limit) of its owned buffers under <key>/length; for a source it
\* writes no <key>/length.  The writes do not depend on a patch being issued.
C29_CacheWrites ==
    (evPc = "done" /\ ValidMetrics(evIn)) =>
        /\ evOut.wrotePending = <<PendingFrom(evIn, 1)>>
        /\ evIn.isSource => evOut.wroteLength = <<>>
        /\ (~evIn.isSource /\ ValidBuffers(evIn)) =>
              evOut.wroteLength = <<UsableLengthFrom(evIn, 1)>>

\* C29's case: a sink with two partitions and buffers of different usage
\* limits was evaluated, wrote both entries and issued no patch.
C29_Witness ==
    /\ evPc = "done" /\ ValidMetrics(evIn) /\ ~evIn.isSource
    /\ evIn.buffers = <<B(8, 100), B(8, 50)>>
    /\ evOut.wrotePending = <<10>> /\ evOut.wroteLength = <<12>>
    /\ evOut.patch = <<>> /\ ~evOut.err

\* ---- claims about the daemon's failures (SpecEval)
\* the evaluation has its daemon client, and GetVertexMetrics fails, or the
\* metrics are valid and a GetPipelineBuffer call fails or answers without a
\* length or a usage limit
DaemonFails(v) ==
    /\ ReachesPipeline(v)
    /\ v.plGet = "ok" /\ ~v.plDeleting /\ v.plRunning
    /\ v.statusReplicas = v.specReplicas /\ v.statusReplicas # 0
    /\ \/ v.daemon = "metricserr"
       \/ v.daemon = "ok" /\ ~NoSignal(v) /\ ~v.isSource /\ ~ValidBuffers(v)

\* C30: an evaluation whose GetVertexMetrics or GetPipelineBuffer call fails,
\* or whose buffer info lacks the length or the usage limit, returns an error
\* and issues no patch; its daemon client is in the pool afterwards (the one
\* that was there before, if there was one) and is not closed, and the watch
\* set is as it was.
C30_DaemonFailureKeepsClient ==
    [][(evPc = "ready" /\ DaemonFails(evIn)) =>
          /\ evOut'.err /\ ~evOut'.panic
          /\ evOut'.patch = <<>>
          /\ ~evOut'.stop /\ WatchSetUnchanged
          /\ PoolHas(pool', GetDaemonServiceURL(evIn.self))
          /\ closed'[PoolClient(pool', GetDaemonServiceURL(evIn.self))] = 0
          /\ PoolHas(pool, GetDaemonServiceURL(evIn.self)) =>
                PoolClient(pool', GetDaemonServiceURL(evIn.self))
                    = PoolClient(pool, GetDaemonServiceURL(evIn.self))]_vars

\* C30's case: the pool was full of another pipeline's client, the evaluation
\* built and added its own, a buffer info came without a usage limit, and the
\* new client is the pool's entry.
C30_Witness ==
    /\ evPc = "done" /\ DaemonFails(evIn)
    /\ evIn.daemon = "ok" /\ ~ValidBuffers(evIn)
    /\ evOut.err
    /\ pool = <<[url |-> GetDaemonServiceURL(evIn.self), client |-> 2]>>
    /\ closed[1] = 1 /\ closed[2] = 0
    /\ evIn.self \in vertexMap

\* ---- claims about the edge fetcher set (SpecWM)
WmEdges == DOMAIN wmIn.heads
\* the edges whose head WMB has a watermark
WithWatermark == {e \in WmEdges : wmIn.heads[e].watermark # -1}
\* the smallest head watermark found (math.MaxInt64 when no edge has one)
SmallestHead ==
    IF WithWatermark = {} THEN MaxInt64
    ELSE CHOOSE m \in {wmIn.heads[e].watermark : e \in WithWatermark} :
            \A e \in WithWatermark : m <= wmIn.heads[e].watermark
\* the minimum watermark over all edge fetchers
MinWatermark ==
    CHOOSE m \in {wmIn.wms[e] : e \in WmEdges} : \A e \in WmEdges : m <= wmIn.wms[e]

\* C31: GetHeadWMB returns the empty WMB when the head WMB of any incoming
\* edge is unset, or when the smallest head watermark found is greater than
\* GetWatermark() (the minimum watermark over the edges); otherwise it returns
\* the head WMB of an edge whose watermark is not -1 with the smallest
\* watermark, and among those with the smallest offset; whatever the order in
\* which the edges are visited.
C31_HeadWMB ==
    wmPc = "done" =>
        IF \E e \in WmEdges : wmIn.heads[e] = unsetWMB THEN wmOut = unsetWMB
        ELSE IF SmallestHead > MinWatermark THEN wmOut = unsetWMB
        ELSE \E e \in WithWatermark :
                /\ wmOut = wmIn.heads[e]
                /\ wmOut.watermark = SmallestHead
                /\ \A f \in WithWatermark :
                      wmIn.heads[f].watermark = SmallestHead =>
                          wmOut.offset <= wmIn.heads[f].offset

\* C31's case: two edges with the same head watermark, the one with the larger
\* offset visited last, and the WMB with the smaller offset was returned.
C31_Witness ==
    /\ wmPc = "done"
    /\ Len(wmIn.order) = 2
    /\ wmIn.heads[wmIn.order[1]].watermark = wmIn.heads[wmIn.order[2]].watermark
    /\ wmIn.heads[wmIn.order[1]].offset < wmIn.heads[wmIn.order[2]].offset
    /\ wmIn.heads[wmIn.order[1]].idle
    /\ wmOut = wmIn.heads[wmIn.order[1]]

\* ---- claims about the scheduler under fair scheduling (SpecFair)
\* C32: the scheduler is free of deadlock: as long as the context is not
\* cancelled and no evaluation panics, a key the dispatcher is sending (the
\* WatchSet lock held) is eventually received by a worker.
C32_DispatchedKeyReceived ==
    ([]~cancelled) => ((pcD.st = "send") ~> (pcD.st # "send" \/ Crashed))

\* ---- more claims about one evaluation (SpecEval)
\* C33: desiredReplicas is only called by an evaluation whose status.replicas
\* equals the spec replicas and is at least 1 (so it never divides by, or
\* multiplies with, zero replicas).
C33_DesiredNeedsReplicas ==
    (evPc = "done" /\ evOut.calledDesired) =>
        /\ evIn.statusReplicas = evIn.specReplicas
        /\ evIn.statusReplicas >= 1

\* C33's case: desiredReplicas was called for a vertex that runs two replicas
\* and has slept past a zero-replica sleep and the cooldown.
C33_Witness ==
    /\ evPc = "done"
    /\ evOut.calledDesired
    /\ evIn.statusReplicas = 2
    /\ evIn.sinceScaled + evIn.delay >= evIn.zeroSleep

\* C34: for a non-source vertex desiredReplicas never reads
\* partitionBufferLengths[i] or partitionAvailableBufferLengths[i] out of
\* range, whatever the daemon answers: no evaluation ends in that panic.
C34_NoOutOfRangeRead ==
    (evPc = "done" /\ ~evIn.isSource) => ~evOut.panic

\* the same downstream edges enumerated in the opposite order
Reversed(edges) == [i \in 1..Len(edges) |-> edges[Len(edges) + 1 - i]]

\* C35: hasBackPressure's result satisfies directPressure => downstreamPressure,
\* and with the same metrics cache it returns the same pair when the downstream
\* edges are enumerated in another order.
C35_PressureOrderFree ==
    ConsultedPressure =>
        /\ evOut.pressure[1] => evOut.pressure[2]
        /\ evOut.pressure = HasBackPressure([evIn EXCEPT !.edges = Reversed(evIn.edges)])

\* C35's case: both downstream vertices are cached at the threshold, the edge
\* further downstream is enumerated before the edge to the direct neighbour,
\* and both flags are set.
C35_Witness ==
    /\ ConsultedPressure
    /\ evIn.cache[2] = Cached(9, 10) /\ evIn.cache[3] = Cached(9, 10)
    /\ evIn.edges[1].from # evIn.self
    /\ evOut.pressure = <<TRUE, TRUE>>

\* ---- claims about the watch set and the dispatcher (Spec)
\* C36: a key the dispatcher starts to send is the front key of the list, which
\* is watched, at the moment it is rotated; a key that is being sent is watched
\* (so once StopWatching(k) has returned, and until a later StartWatching(k), k
\* is not rotated and not sent); and a step of a worker's evaluation adds no key
\* to the watch set and removes none but the key it evaluates.
C36_WatchedKeysOnly ==
    [][/\ (pcD'.st = "send" /\ pcD.st # "send") =>
              /\ vertexList # <<>>
              /\ pcD'.key = Head(vertexList)
              /\ pcD'.key \in vertexMap
       /\ pcD'.st = "send" => pcD'.key \in vertexMap'
       /\ \A k \in Keys \ vertexMap' : k \notin SeqToSet(vertexList')
       /\ \A w \in WorkerIds :
              pcW'[w] # pcW[w] =>
                  /\ vertexMap' \subseteq vertexMap
                  /\ vertexMap \ vertexMap' \subseteq {pcW[w].key}
                  /\ SeqToSet(vertexList') = vertexMap']_vars

\* C36's case: key 1 was dispatched and is being evaluated, StopWatching(1) has
\* returned since, and the dispatcher, with two keys left to rotate, is sending
\* one of them.
C36_Witness ==
    /\ pcD.st = "send"
    /\ vertexMap = {2, 3}
    /\ \E w \in WorkerIds : pcW[w].st = "eval" /\ pcW[w].key = 1

\* ---- claims about jetStreamReader.Ack (SpecAck)
\* C37: Ack returns only after AckIt has completed for every offset; the slice
\* returned has one entry per offset, in the offsets' order, and entry i is
\* non-nil exactly when AckIt of offset i returned an error whose message does
\* not start with "nats:" (it is then that error).
C37_AckReturnsAll ==
    ackPc.main = "returned" =>
        /\ \A i \in 1..Len(ackIn) : ackPc.g[i] = "done"
        /\ Len(ackErrs) = Len(ackIn)
        /\ \A i \in 1..Len(ackIn) :
              /\ (ackErrs[i] # NoError) <=>
                    (ackIn[i] \notin {NoError, "nats: message was already acknowledged",
                                      "nats: message not found", "nats: timeout"})
              /\ ackErrs[i] # NoError => ackErrs[i] = ackIn[i]

\* C37's case: three offsets, the first acknowledged, the second failing with
\* an error of the nats client, the third with another error; Ack has returned
\* with only the third entry set.
C37_Witness ==
    /\ ackPc.main = "returned"
    /\ ackIn = <<NoError, "nats: timeout", "context deadline exceeded">>
    /\ ackErrs = <<NoError, NoError, "context deadline exceeded">>

====
